---- MODULE Spec2Model ----
(***************************************************************************)
(* State-machine model of the ingestion core of the Solana prediction      *)
(* market aggregator: the event dispatcher, the market indexer, the RPC    *)
(* client with failover and the WebSocket subscription manager.            *)
(*                                                                         *)
(* JavaScript runs one task at a time: every action below is the code that *)
(* runs between two suspension points (await) of one async call.           *)
(***************************************************************************)
EXTENDS Integers, Sequences, FiniteSets, TLC

(***************************************************************************)
(* Bounds of the model                                                     *)
(***************************************************************************)
MaxEvents == 3
MaxClock == 1

\* producers calling dispatch() concurrently
Producers == {"p1", "p2"}
\* functions registered with on(type, handler)
TypeHandlerIds == {"h1"}
\* functions registered with onAll(handler)
GlobalHandlerIds == {"g1"}
HandlerIds == TypeHandlerIds \cup GlobalHandlerIds
\* wrappers created by once(type, handler), one per call
OnceIds == {"o1"}
AllHandlerIds == HandlerIds \cup OnceIds
\* two of the members of MarketEventTypeSchema
EventTypes == {"market_updated", "market_created"}
\* names emit() is called with: the event's type and the wildcard
EmitNames == EventTypes \cup {"*"}
\* the WebSocket clients of the API server
ApiClients == {"k1"}
\* who calls runCycle: start(), the interval timer, and two /api/trigger requests
BotCallers == {"startup", "timer", "trigger1", "trigger2"}
\* `if (this.state.errorCount >= 5)`
ErrorLimit == 5
\* the failures counted in a row
MaxBotErrors == 6

\* replayBufferConfig.maxSize and replayBufferConfig.ttlMs (0: not set)
ReplayMaxSize == 2
TtlChoices == {0, 1}

NoEvent == [id |-> 0, type |-> "none", timestamp |-> 0]

\* IndexerConfig.programIds, in configuration order
ProgramIds == <<"A", "B">>
ProgramKeys == {"A", "B"}
\* registries the process may have been started with: an adapter for every
\* configured program, or none for "B"
RegistryChoices == {{"A", "B"}, {"A"}}
\* IndexerConfig.batchSize
BatchSize == 2
\* accounts getProgramAccounts returns for one program
MaxAccounts == 3
\* the same, where the life cycle of the indexer is explored
LifecycleAccounts == {0, 1}
\* calls of stop(), pushes delivered by the subscriptions
MaxStopCalls == 2
MaxPushes == 2
\* ids the connection hands out for listeners
MaxSubIds == 3
\* concurrent callers of start(), each calling it once
Starters == {"s1", "s2"}
\* what an account's bytes lead to in processAccount
AccountKinds == {"ok", "badDecode", "badNormalize"}

\* endpoints the client may be configured with: httpEndpoint and fallbacks
MaxEndpoints == 3
\* concurrent callers of executeWithRetry, each calling it once
Callers == {"c1", "c2"}
\* the options executeWithRetry passes to withRetry
MaxAttempts == 3
InitialDelayMs == 1000
MaxDelayMs == 10000
BackoffMultiplier == 2
\* messages of the errors an operation or a probe rejects with, lower-cased
\* and reduced to the marker they include (if any)
ErrorMessages == {"timeout", "429", "invalid params"}

\* accounts subscribed to one by one, callbacks handed to the manager by its
\* other users
AccountKeys == {"acct"}
WsCallbacks == {"cb1", "cb2"}
\* subscribe calls made by them, handleReconnect() calls made by the owner
MaxWsSubs == 2
MaxReconnectCalls == 2
\* WebSocketManager.maxReconnectAttempts, reconnectDelay and the cap of the delay
MaxReconnectAttempts == 10
ReconnectDelay == 1000
ReconnectDelayCap == 30000

\* changes made on chain to the account the gap analysis follows
MaxChanges == 2

\* events one run of the processing pipeline may dispatch
MaxAcEvents == 2

\* config.trading.maxTotalExposureUsdc, in USDC
MaxTotalExposureUsdc == 20
\* config.trading.fixedPositionSizeUsdc
FixedPositionSizeUsdc == 8
\* the smallest trade createTradeSignal lets through
MinTradeSizeUsdc == 5
\* edge.recommendedSize of the edges handed to the trader
RecommendedSizes == {0, 4, 12, 30}
\* callers of the trader: the bot's cycle and a manual trigger
TraderCallers == {"bot", "manual"}
\* markets and the sides of an edge
TraderMarkets == {"w1", "w2"}
EdgeSides == {"yes", "no", "none"}
\* trades recorded in one run
MaxTrades == 2

VARIABLES
  \* ---- EventDispatcher fields
  replayBuffer,        \* BufferedEvent[]: <<[event, timestamp]>>
  replayEnabled,       \* replayBufferConfig.enabled
  ttlMs,               \* replayBufferConfig.ttlMs, 0 when not set
  handlers,            \* Map<type, Set<handler>>, a Set iterates in insertion order
  globalHandlers,      \* Set<handler>
  processingQueue,     \* MarketEvent[]
  isProcessing,        \* boolean
  \* ---- the dispatch() call of each producer
  dpc,                 \* "idle" | "awaitEvent" (inside processQueue, awaiting processEvent)
  dcur,                \* the event that call is processing
  dpending,            \* handler invocations of dcur that have not settled
  now,                 \* Date.now()
  \* ---- history of the run, read by the properties only
  enqueued,            \* ids in the order of processingQueue.push
  dequeued,            \* ids in the order of processingQueue.shift
  invoked,             \* per handler: the ids it was called with, in call order
  dsnap,               \* per drain: the handlers registered when dcur was dequeued
  firstFailed,         \* id of the first event on which a handler threw or rejected (0: none)
  thrown,              \* a handler failure reached processQueue / dispatch
  pruned,              \* entries were removed by the TTL sweep or clearReplayBuffer
  onceType,            \* per once() wrapper: the type it was registered for ("none": not created)
  emitListeners,       \* names that have a listener added with EventEmitter's addListener
  \* ---- WebSocketManager and the connection it subscribes on
  wsListeners,         \* listeners registered on the connection: [id, kind, key, cb]
  wsProgramSubs,       \* programSubscriptions: key -> subscription id (0: no entry)
  wsNextId,            \* the id the connection gives to the next listener
  \* ---- MarketIndexer fields
  registry,            \* program ids with a registered adapter
  ixRunning,           \* isRunning
  ixPollTimer,         \* pollIntervalId is set
  ixSubs,              \* subscriptions: Map in insertion order, <<programId, id>>
  \* ---- each start() call
  spc,                 \* "idle" | "awaitFetch" | "awaitBatch" | "awaitSubscribe"
  sprog,               \* index in ProgramIds of the program being handled
  sn,                  \* number of accounts fetched for that program
  sbatch,              \* index of the first account of the current batch
  srunning,            \* accounts of the current batch whose processing has not settled
  sabort,              \* a per-account failure left processAccount and its wrapper
  spendId,             \* the id returned by the subscribeToProgram being awaited
  \* ---- the stop() call
  tpc,                 \* "idle" | "awaitRemove"
  titer,               \* position of the Map iterator in ixSubs
  tid,                 \* the subscription id being removed (0: none)
  \* ---- history of the run, read by the properties only
  scalled,             \* the callers that have called start()
  stopCalls,           \* number of stop() calls
  sstat,               \* per start() call, for the program in hand: accounts settled / ok / dispatched
  sleft,               \* per start() call, the same for the program it handled last
  pushStat,            \* pushes delivered / decoded and normalized / dispatched
  lastProbe,           \* result of the last poll tick's health probe
  stopQuiet,           \* a stop() has returned and start() was not called since
  removeFailed,        \* a removeProgramAccountChangeListener call rejected
  \* ---- one account of the first program, on chain and as the indexer saw it
  chainVer,            \* changes made to it since start() was first called
  gapSnap,             \* per start() call: the change count its snapshot of the account holds
  gapSeen,             \* the change counts the indexer has processed and dispatched
  \* ---- SolanaRpcClient fields
  rpcN,                \* endpoints.length
  rpcIndex,            \* currentEndpointIndex
  rpcConn,             \* index of the endpoint this.connection was created for
  failoverInProgress,  \* boolean
  \* ---- each executeWithRetry call
  cpc,                 \* "idle" | "awaitOp" | "awaitProbe" | "afterFailover" | "awaitRetryOp" | "sleep" | "done"
  cattempt,            \* withRetry: attempt
  cdelay,              \* withRetry: delay
  cresult,             \* "none" | "ok" | "error": how the call settled
  \* ---- history of the run, read by the properties only
  cinv,                \* per call: its invocations of the operation, [ep, first, epoch, out]
  cslept,              \* per call: the delays it slept
  advances,            \* the failovers that advanced the index: [by, from, epoch]
  \* ---- WebSocketManager: account subscriptions and reconnection
  wsAccountSubs,       \* accountSubscriptions: key -> subscription id (0: no entry)
  reconnectAttempts,   \* reconnectAttempts
  isReconnecting,      \* isReconnecting
  \* ---- the handleReconnect() call and the unsubscribe call in progress
  rcpc,                \* "idle" | "sleep" | "awaitProbe" | "awaitResub" | "done" | "failed"
  upc,                 \* "idle" | "awaitRemove"
  ureq,                \* the subscription being removed: [kind, key, id]
  \* ---- history of the run, read by the properties only
  rcCalls,             \* number of handleReconnect() calls of the owner
  rcProbes,            \* probes made by the current handleReconnect() call
  rcDelays,            \* the delays it slept, in order
  rcBefore,            \* the subscriptions tracked when resubscribeAll was entered
  rcAfter,             \* the subscriptions tracked when the reconnect completed
  \* ---- decoding, normalizing and processing one account
  acInput,             \* the account at hand: [data, programId, address, slot, path, decoder, decoders]
  acOutput,            \* what the calls on it returned; an empty sequence: not called
  acNowMs,             \* Date.now()
  acEvents,            \* the events processAccount handed to dispatcher.dispatch, in order
  trAuto,              \* config.trading.autoTradeEnabled
  trWallet,            \* wallet is set (initialize() succeeded)
  trMethod,            \* config.trading.positionSizingMethod
  trPositions,         \* positions: key -> totalCost of the position (0: no entry)
  trExposure,          \* totalExposure
  trTrades,            \* trades: the status and size of each, in push order
  trPc,                \* per caller: "idle" | "awaitTrade" | "awaitClose"
  trHeld,              \* per caller: the signal being executed or the position being closed
  trSwaps,             \* swap transactions handed to executeSwap
  wpc,                 \* the waitForIdle() call: "idle" | "polling" | "resolved"
  rtpc,                \* the replayTo() call: "idle" | "awaitHandler" | "done"
  rtArgs,              \* its arguments: [type, since] ("" and 0: not given)
  rtBuffer,            \* the replay buffer when it was called
  rtEvents,            \* its local array `events`
  rtCalls,             \* the events its handler was invoked with, in order
  rtSettled,           \* how many of these invocations have settled
  rtFailed,            \* the events whose invocation threw or rejected
  wsClients,           \* ApiServer.wsClients: the connected WebSocket clients
  apReplay,            \* per client: the events of the 'replay' message it was sent
  apJoined,            \* per client: how many events had been broadcast when it connected
  botRunning,          \* WeatherMarketBot.isRunning
  botErrors,           \* state.errorCount
  botLoop,             \* loopInterval is set
  botStarted,          \* start() has started the API server and the initial cycle
  bpc,                 \* per caller of runCycle: "idle" | "body" | "alertError" | "stopping"
  acLog                \* the last call: the clock and the event count it started from

dispVars == <<replayBuffer, replayEnabled, ttlMs, handlers, globalHandlers,
              processingQueue, isProcessing, dpc, dcur, dpending, now,
              enqueued, dequeued, invoked, dsnap, firstFailed, thrown, pruned,
              onceType, emitListeners>>

wsVars == <<wsListeners, wsProgramSubs, wsNextId>>

ixVars == <<registry, ixRunning, ixPollTimer, ixSubs, spc, sprog, sn, sbatch,
            srunning, sabort, spendId, tpc, titer, tid, scalled, stopCalls,
            sstat, sleft, pushStat, lastProbe, stopQuiet,
            removeFailed, chainVer, gapSnap, gapSeen>>

rpcVars == <<rpcN, rpcIndex, rpcConn, failoverInProgress, cpc, cattempt, cdelay,
             cresult, cinv, cslept, advances>>

wrVars == <<wsAccountSubs, reconnectAttempts, isReconnecting, rcpc, upc, ureq,
            rcCalls, rcProbes, rcDelays, rcBefore, rcAfter>>

acVars == <<acInput, acOutput, acNowMs, acEvents, acLog>>

trVars == <<trAuto, trWallet, trMethod, trPositions, trExposure, trTrades, trPc,
            trHeld, trSwaps>>

\* the callers of waitForIdle
idVars == <<wpc>>

\* the replayTo call
rtVars == <<rtpc, rtArgs, rtBuffer, rtEvents, rtCalls, rtSettled, rtFailed>>

\* the WebSocket clients of the ApiServer
apVars == <<wsClients, apReplay, apJoined>>

\* the WeatherMarketBot
botVars == <<botRunning, botErrors, botLoop, botStarted, bpc>>

exVars == <<idVars, rtVars, apVars, botVars>>

vars == <<dispVars, wsVars, ixVars, rpcVars, wrVars, acVars, trVars, exVars>>

\* what the dispatcher's operations leave alone, and the indexer's
dispOthers == <<wsVars, ixVars, rpcVars, wrVars, acVars, trVars, exVars>>
ixOthers == <<dispVars, rpcVars, wrVars, acVars, trVars, exVars>>
rpcOthers == <<dispVars, wsVars, ixVars, wrVars, acVars, trVars, exVars>>
wsOthers == <<dispVars, ixVars, rpcVars, acVars, trVars, exVars>>
acOthers == <<dispVars, wsVars, ixVars, rpcVars, wrVars, trVars, exVars>>
trOthers == <<dispVars, wsVars, ixVars, rpcVars, wrVars, acVars, exVars>>
idOthers == <<wsVars, ixVars, rpcVars, wrVars, acVars, trVars, rtVars, apVars, botVars>>
rtOthers == <<wsVars, ixVars, rpcVars, wrVars, acVars, trVars, idVars, apVars, botVars>>
apOthers == <<wsVars, ixVars, rpcVars, wrVars, acVars, trVars, idVars, rtVars, botVars>>
botOthers == <<dispVars, wsVars, ixVars, rpcVars, wrVars, acVars, trVars, idVars, rtVars, apVars>>

(***************************************************************************)
(* Helpers on sequences                                                    *)
(***************************************************************************)
SeqToSet(s) == {s[i] : i \in 1..Len(s)}

SeqContains(s, x) == x \in SeqToSet(s)

\* Set.add: appended at the end unless already a member
SetAdd(s, x) == IF SeqContains(s, x) THEN s ELSE Append(s, x)

\* Set.delete
SetDelete(s, x) == SelectSeq(s, LAMBDA y: y # x)

\* Array.splice(0, n): drops the first n entries
DropFirst(s, n) == IF n >= Len(s) THEN <<>> ELSE SubSeq(s, n + 1, Len(s))

\* the last n entries of s
LastN(s, n) == IF Len(s) <= n THEN s ELSE SubSeq(s, Len(s) - n + 1, Len(s))

\* the position of x in s (0 when absent)
PosIn(s, x) == IF SeqContains(s, x) THEN CHOOSE i \in 1..Len(s): s[i] = x ELSE 0

(***************************************************************************)
(* EventDispatcher                                                         *)
(***************************************************************************)

\* (mutant of AddToReplayBuffer) push without the trim
AddWithoutTrim(buf, event, t) == Append(buf, [event |-> event, timestamp |-> t])

\* addToReplayBuffer: push, then splice(0, excess) when over maxSize
AddToReplayBuffer(buf, event, t) ==
  LET pushed == Append(buf, [event |-> event, timestamp |-> t])
  IN IF Len(pushed) > ReplayMaxSize
       THEN DropFirst(pushed, Len(pushed) - ReplayMaxSize)
       ELSE pushed

\* (mutant of DrainGuardOpen) no guard
DrainGuardMissing == TRUE

\* processQueue's re-entrancy guard: if (this.isProcessing) return
DrainGuardOpen == ~isProcessing

\* (mutant of Shift) processingQueue.pop(): takes the newest event
PopNewest(q) == <<q[Len(q)], SubSeq(q, 1, Len(q) - 1)>>

\* processingQueue.shift(): <<the event taken, the queue left>>
Shift(q) == <<Head(q), Tail(q)>>

\* (mutant of AllHandlers) the global handlers are left out
TypeHandlersOnly(type) == handlers[type]

\* processEvent: [...handlers.get(type), ...globalHandlers]
AllHandlers(type) == handlers[type] \o globalHandlers

\* allHandlers.map(async (handler) => { try { await handler(event) } catch {} }):
\* every handler of the list is called, whichever of them throw synchronously
HandlersInvoked(hs, syncThrowers) == hs

\* (mutant of RethrowsHandlerFailure) no catch block, Promise.all
RethrowsAlways == TRUE

\* the catch block of the handler wrapper swallows the failure, and
\* Promise.allSettled never rejects
RethrowsHandlerFailure == FALSE

\* one iteration of processQueue's while loop, for the drain run by producer p,
\* starting from queue q (non-empty): shift, then processEvent up to its await
LoopIteration(p, q) ==
  LET event == Shift(q)[1]
      all == AllHandlers(event.type)
  IN /\ processingQueue' = Shift(q)[2]
     /\ dequeued' = Append(dequeued, event.id)
     /\ dsnap' = [dsnap EXCEPT ![p] = SeqToSet(all)]
     /\ dcur' = [dcur EXCEPT ![p] = event]
     /\ dpc' = [dpc EXCEPT ![p] = "awaitEvent"]
     /\ \E syncThrowers \in SUBSET SeqToSet(all):
          LET called == HandlersInvoked(all, syncThrowers)
          IN /\ invoked' = [h \in AllHandlerIds |->
                              IF SeqContains(called, h)
                                THEN Append(invoked[h], event.id)
                                ELSE invoked[h]]
             /\ dpending' = [dpending EXCEPT ![p] = SeqToSet(called) \ syncThrowers]
             /\ firstFailed' = IF firstFailed = 0 /\ syncThrowers \cap SeqToSet(called) # {}
                                 THEN event.id ELSE firstFailed

\* dispatch(event) up to its first suspension
Dispatch(p, type) ==
  /\ dpc[p] = "idle"
  /\ UNCHANGED dispOthers
  /\ Len(enqueued) < MaxEvents
  /\ LET event == [id |-> Len(enqueued) + 1, type |-> type, timestamp |-> now]
         q == Append(processingQueue, event)
     IN /\ replayBuffer' = IF replayEnabled
                             THEN AddToReplayBuffer(replayBuffer, event, now)
                             ELSE replayBuffer
        /\ enqueued' = Append(enqueued, event.id)
        /\ IF DrainGuardOpen
             THEN /\ isProcessing' = TRUE
                  /\ LoopIteration(p, q)
             ELSE /\ processingQueue' = q
                  /\ UNCHANGED <<isProcessing, dpc, dcur, dpending, dequeued,
                                 invoked, dsnap, firstFailed>>
  /\ UNCHANGED <<replayEnabled, ttlMs, handlers, globalHandlers, now, thrown, pruned,
                 onceType, emitListeners>>

\* the wrapper of once(): `await handler(event); this.off(eventType, wrappedHandler)`.
\* off() runs when the handler has resolved; a handler that throws or rejects
\* makes the wrapper reject at the await, before off()
OnceSettled(o, ok) ==
  IF ok
    THEN [handlers EXCEPT ![onceType[o]] = SetDelete(handlers[onceType[o]], o)]
    ELSE handlers

\* an asynchronous handler invocation settles: resolves (ok) or rejects
HandlerSettle(p, h, ok) ==
  /\ dpc[p] = "awaitEvent"
  /\ UNCHANGED dispOthers
  /\ h \in dpending[p]
  /\ firstFailed' = IF ~ok /\ firstFailed = 0 THEN dcur[p].id ELSE firstFailed
  /\ IF ~ok /\ RethrowsHandlerFailure
       THEN \* the failure leaves processEvent: finally { isProcessing = false }
            /\ thrown' = TRUE
            /\ isProcessing' = FALSE
            /\ dpc' = [dpc EXCEPT ![p] = "idle"]
            /\ dcur' = [dcur EXCEPT ![p] = NoEvent]
            /\ dpending' = [dpending EXCEPT ![p] = {}]
            /\ dsnap' = [dsnap EXCEPT ![p] = {}]
       ELSE /\ dpending' = [dpending EXCEPT ![p] = dpending[p] \ {h}]
            /\ UNCHANGED <<thrown, isProcessing, dpc, dcur, dsnap>>
  /\ handlers' = IF h \in OnceIds THEN OnceSettled(h, ok) ELSE handlers
  /\ UNCHANGED <<replayBuffer, replayEnabled, ttlMs, globalHandlers,
                 processingQueue, now, enqueued, dequeued, invoked, pruned,
                 onceType, emitListeners>>

\* (mutant of AllSettled) Promise.race: the first handler to settle is enough
AnySettled(pending) == TRUE

\* await Promise.allSettled(handlerPromises)
AllSettled(pending) == pending = {}

\* processQueue resumes after `await this.processEvent(event)`: Promise.allSettled
\* has resolved, emit() finds no EventEmitter listener; then the loop test
DrainContinue(p) ==
  /\ dpc[p] = "awaitEvent"
  /\ UNCHANGED dispOthers
  /\ AllSettled(dpending[p])
  /\ IF Len(processingQueue) > 0
       THEN /\ LoopIteration(p, processingQueue)
            /\ UNCHANGED isProcessing
       ELSE /\ isProcessing' = FALSE
            /\ dpc' = [dpc EXCEPT ![p] = "idle"]
            /\ dcur' = [dcur EXCEPT ![p] = NoEvent]
            /\ dsnap' = [dsnap EXCEPT ![p] = {}]
            /\ UNCHANGED <<processingQueue, dpending, dequeued, invoked, firstFailed>>
  /\ UNCHANGED <<replayBuffer, replayEnabled, ttlMs, handlers, globalHandlers,
                 now, enqueued, thrown, pruned, onceType, emitListeners>>

\* emit(event.type, event) or emit('*', event) calls a listener that throws:
\* the exception leaves processEvent and the while loop of processQueue, whose
\* finally block clears isProcessing; dispatch() rejects
EmitThrows(p) ==
  /\ dpc[p] = "awaitEvent"
  /\ UNCHANGED dispOthers
  /\ AllSettled(dpending[p])
  \* processEvent returns before emit() when allHandlers is empty
  /\ dsnap[p] # {}
  /\ emitListeners \cap {dcur[p].type, "*"} # {}
  /\ thrown' = TRUE
  /\ isProcessing' = FALSE
  /\ dpc' = [dpc EXCEPT ![p] = "idle"]
  /\ dcur' = [dcur EXCEPT ![p] = NoEvent]
  /\ dsnap' = [dsnap EXCEPT ![p] = {}]
  /\ UNCHANGED <<replayBuffer, replayEnabled, ttlMs, handlers, globalHandlers,
                 processingQueue, dpending, now, enqueued, dequeued, invoked,
                 firstFailed, pruned, onceType, emitListeners>>

dispRegFrame == <<dispOthers, replayBuffer, replayEnabled, ttlMs, processingQueue, isProcessing,
                  dpc, dcur, dpending, now, enqueued, dequeued, invoked, dsnap,
                  firstFailed, thrown, pruned>>

\* on(eventType, handler)
On(type, h) ==
  /\ handlers' = [handlers EXCEPT ![type] = SetAdd(handlers[type], h)]
  /\ UNCHANGED <<globalHandlers, dispRegFrame, onceType, emitListeners>>

\* onAll(handler)
OnAll(h) ==
  /\ globalHandlers' = SetAdd(globalHandlers, h)
  /\ UNCHANGED <<handlers, dispRegFrame, onceType, emitListeners>>

\* off(eventType, handler)
Off(type, h) ==
  /\ handlers' = [handlers EXCEPT ![type] = SetDelete(handlers[type], h)]
  /\ UNCHANGED <<globalHandlers, dispRegFrame, onceType, emitListeners>>

\* once(eventType, handler): a new wrapper, registered with on()
Once(type, o) ==
  /\ onceType[o] = "none"
  /\ onceType' = [onceType EXCEPT ![o] = type]
  /\ handlers' = [handlers EXCEPT ![type] = SetAdd(handlers[type], o)]
  /\ UNCHANGED <<globalHandlers, dispRegFrame, emitListeners>>

\* addListener(name, listener), inherited from EventEmitter
AddListener(name) ==
  /\ emitListeners' = emitListeners \cup {name}
  /\ UNCHANGED <<handlers, globalHandlers, dispRegFrame, onceType>>

\* offAll(handler)
OffAll(h) ==
  /\ globalHandlers' = SetDelete(globalHandlers, h)
  /\ UNCHANGED <<handlers, dispRegFrame, onceType, emitListeners>>

\* cleanupOldEvents: the setInterval callback installed when ttlMs is set
CleanupOldEvents ==
  /\ ttlMs # 0
  /\ UNCHANGED dispOthers
  /\ LET cutoff == now - ttlMs
         kept == SelectSeq(replayBuffer, LAMBDA item: item.timestamp > cutoff)
     IN /\ replayBuffer' = kept
        /\ pruned' = (pruned \/ Len(kept) < Len(replayBuffer))
  /\ UNCHANGED <<replayEnabled, ttlMs, handlers, globalHandlers, processingQueue,
                 isProcessing, dpc, dcur, dpending, now, enqueued, dequeued,
                 invoked, dsnap, firstFailed, thrown, onceType, emitListeners>>

\* clearReplayBuffer
ClearReplayBuffer ==
  /\ replayBuffer' = <<>>
  /\ UNCHANGED dispOthers
  /\ pruned' = (pruned \/ Len(replayBuffer) > 0)
  /\ UNCHANGED <<replayEnabled, ttlMs, handlers, globalHandlers, processingQueue,
                 isProcessing, dpc, dcur, dpending, now, enqueued, dequeued,
                 invoked, dsnap, firstFailed, thrown, onceType, emitListeners>>

\* time passes
Tick ==
  /\ now < MaxClock
  /\ UNCHANGED dispOthers
  /\ now' = now + 1
  /\ UNCHANGED <<replayBuffer, replayEnabled, ttlMs, handlers, globalHandlers,
                 processingQueue, isProcessing, dpc, dcur, dpending, enqueued,
                 dequeued, invoked, dsnap, firstFailed, thrown, pruned,
                 onceType, emitListeners>>

\* the state after `new EventDispatcher(replayBufferConfig)`
DispInit(enabledChoices, ttlChoices) ==
  /\ replayBuffer = <<>>
  /\ replayEnabled \in enabledChoices
  /\ ttlMs \in ttlChoices
  /\ handlers = [t \in EventTypes |-> <<>>]
  /\ globalHandlers = <<>>
  /\ processingQueue = <<>>
  /\ isProcessing = FALSE
  /\ dpc = [p \in Producers |-> "idle"]
  /\ dcur = [p \in Producers |-> NoEvent]
  /\ dpending = [p \in Producers |-> {}]
  /\ now = 0
  /\ enqueued = <<>>
  /\ dequeued = <<>>
  /\ invoked = [h \in AllHandlerIds |-> <<>>]
  /\ dsnap = [p \in Producers |-> {}]
  /\ firstFailed = 0
  /\ thrown = FALSE
  /\ pruned = FALSE
  /\ onceType = [o \in OnceIds |-> "none"]
  /\ emitListeners = {}

\* producers, handlers and subscription management
DispNext ==
  \/ \E p \in Producers, type \in EventTypes: Dispatch(p, type)
  \/ \E p \in Producers, h \in AllHandlerIds, ok \in BOOLEAN: HandlerSettle(p, h, ok)
  \/ \E p \in Producers: DrainContinue(p)
  \/ \E type \in EventTypes, h \in TypeHandlerIds: On(type, h)
  \/ \E h \in GlobalHandlerIds: OnAll(h)
  \/ \E type \in EventTypes, h \in TypeHandlerIds: Off(type, h)
  \/ \E h \in GlobalHandlerIds: OffAll(h)

\* the replay buffer under dispatches, the TTL sweep and clearReplayBuffer
ReplayNext ==
  \/ \E p \in Producers, type \in EventTypes: Dispatch(p, type)
  \/ \E p \in Producers: DrainContinue(p)
  \/ CleanupOldEvents
  \/ ClearReplayBuffer
  \/ Tick

\* the negation of the loop test of waitForIdle:
\* `while (this.processingQueue.length > 0 || this.isProcessing)`
IdleTest == ~(Len(processingQueue) > 0 \/ isProcessing)

\* waitForIdle() is called: the loop test, then the promise resolves or the
\* call sleeps 10 ms
WaitForIdle ==
  /\ wpc = "idle"
  /\ wpc' = IF IdleTest THEN "resolved" ELSE "polling"
  /\ UNCHANGED <<dispVars, idOthers>>

\* the 10 ms timer of waitForIdle fired: the loop test again
WaitPoll ==
  /\ wpc = "polling"
  /\ wpc' = IF IdleTest THEN "resolved" ELSE "polling"
  /\ UNCHANGED <<dispVars, idOthers>>

IdInit == wpc = "idle"

\* getReplayBuffer(eventType?, since?): `if (eventType)` and `if (since)` skip
\* the filter for an argument that is not given (or is 0)
GetReplayBuffer(eventType, since) ==
  LET events == [i \in 1..Len(replayBuffer) |-> replayBuffer[i].event]
      TypeIs(event) == event.type = eventType
      NotBefore(event) == event.timestamp >= since
      byType == IF eventType # "" THEN SelectSeq(events, TypeIs) ELSE events
  IN IF since # 0 THEN SelectSeq(byType, NotBefore) ELSE byType

\* (mutant of ReplayContinues) the failure leaves the loop
ReplayStopsAtFailure(ok) == ok

\* `try { await handler(event) } catch (error) { logger.error(...) }`: the
\* loop goes on whatever the invocation did
ReplayContinues(ok) == TRUE

\* replayTo(handler, eventType, since) up to the first `await handler(event)`
ReplayTo(eventType, since) ==
  /\ rtpc = "idle"
  /\ LET events == GetReplayBuffer(eventType, since)
     IN /\ rtEvents' = events
        /\ rtCalls' = IF Len(events) > 0 THEN <<events[1].id>> ELSE <<>>
        /\ rtpc' = IF Len(events) > 0 THEN "awaitHandler" ELSE "done"
  /\ rtArgs' = [type |-> eventType, since |-> since]
  /\ rtBuffer' = replayBuffer
  /\ UNCHANGED <<rtSettled, rtFailed>>
  /\ UNCHANGED <<dispVars, rtOthers>>

\* the handler invocation settled: the next event of the array, or the end
ReplaySettle(ok) ==
  /\ rtpc = "awaitHandler"
  /\ rtSettled' = rtSettled + 1
  /\ rtFailed' = IF ok THEN rtFailed ELSE rtFailed \cup {rtCalls[Len(rtCalls)]}
  /\ IF ReplayContinues(ok) /\ Len(rtCalls) < Len(rtEvents)
       THEN /\ rtCalls' = Append(rtCalls, rtEvents[Len(rtCalls) + 1].id)
            /\ UNCHANGED rtpc
       ELSE /\ rtpc' = "done"
            /\ UNCHANGED rtCalls
  /\ UNCHANGED <<rtArgs, rtBuffer, rtEvents>>
  /\ UNCHANGED <<dispVars, rtOthers>>

RtInit ==
  /\ rtpc = "idle"
  /\ rtArgs = [type |-> "", since |-> 0]
  /\ rtBuffer = <<>>
  /\ rtEvents = <<>>
  /\ rtCalls = <<>>
  /\ rtSettled = 0
  /\ rtFailed = {}

\* the handler setupWebSocket registers with dispatcher.onAll: broadcastEvent
BroadcastHandler == "g1"

\* a drain can go on without waiting for anything but promise continuations:
\* every handler it waits for has settled, or is broadcastEvent, which is
\* synchronous
DrainRunnable ==
  \E p \in Producers: dpc[p] = "awaitEvent" /\ dpending[p] \subseteq {BroadcastHandler}

\* the `connection` handler of setupWebSocket: wsClients.add(ws), then
\* sendReplayBuffer(ws) sends dispatcher.getReplayBuffer() in one 'replay'
\* message. The handler exists once setupWebSocket has run, which also
\* registers broadcastEvent with onAll; being a task of the event loop, it
\* runs only when no promise continuation is runnable
ApiConnect(c) ==
  /\ SeqContains(globalHandlers, BroadcastHandler)
  /\ ~DrainRunnable
  /\ c \notin wsClients
  /\ wsClients' = wsClients \cup {c}
  /\ LET events == GetReplayBuffer("", 0)
     IN apReplay' = [apReplay EXCEPT ![c] = [i \in 1..Len(events) |-> events[i].id]]
  /\ apJoined' = [apJoined EXCEPT ![c] = Len(invoked[BroadcastHandler])]
  /\ UNCHANGED <<dispVars, apOthers>>

\* broadcastEvent sends every event it is invoked with to the clients in
\* wsClients at that moment: what client c was sent as 'event' messages
LiveEvents(c) ==
  IF c \in wsClients
    THEN SubSeq(invoked[BroadcastHandler], apJoined[c] + 1, Len(invoked[BroadcastHandler]))
    ELSE <<>>

ApInit ==
  /\ wsClients = {}
  /\ apReplay = [c \in ApiClients |-> <<>>]
  /\ apJoined = [c \in ApiClients |-> 0]

(***************************************************************************)
(* WeatherMarketBot: the trading cycle                                     *)
(***************************************************************************)
\* runCycle() from its guard to its first await: a call made while isRunning
\* returns at once
RunCycle(c) ==
  IF botRunning
    THEN UNCHANGED <<botRunning, bpc>>
    ELSE /\ botRunning' = TRUE
         /\ bpc' = [bpc EXCEPT ![c] = "body"]

\* start(): startApiServer(), then `await this.runCycle()`
BotStart ==
  /\ ~botStarted
  /\ botStarted' = TRUE
  /\ RunCycle("startup")
  /\ UNCHANGED <<botErrors, botLoop>>
  /\ UNCHANGED botOthers

\* the setInterval callback: `if (!this.isRunning) await this.runCycle()`
TimerTick ==
  /\ botLoop
  /\ bpc["timer"] = "idle"
  /\ IF ~botRunning THEN RunCycle("timer") ELSE UNCHANGED <<botRunning, bpc>>
  /\ UNCHANGED <<botErrors, botLoop, botStarted>>
  /\ UNCHANGED botOthers

\* POST /api/trigger: 409 while isRunning, else runCycle() is called and not
\* awaited
Trigger(c) ==
  /\ botStarted
  /\ bpc[c] = "idle"
  /\ IF botRunning THEN UNCHANGED <<botRunning, bpc>> ELSE RunCycle(c)
  /\ UNCHANGED <<botErrors, botLoop, botStarted>>
  /\ UNCHANGED botOthers

\* runCycle returns through `finally { this.isRunning = false }`; start() goes
\* on to startLoop() when its initial cycle has returned
CycleReturn(c) ==
  /\ botRunning' = FALSE
  /\ bpc' = [bpc EXCEPT ![c] = "idle"]
  /\ botLoop' = IF c = "startup" THEN TRUE ELSE botLoop

\* the try block of runCycle ends: no market was found (isRunning = false;
\* return), the cycle completed (errorCount = 0), or an await threw, which
\* the catch block counts before `await alertManager.alertError(...)`
CycleBody(c, outcome) ==
  /\ bpc[c] = "body"
  /\ IF outcome = "throw"
       THEN /\ botErrors < MaxBotErrors
            /\ botErrors' = botErrors + 1
            /\ bpc' = [bpc EXCEPT ![c] = "alertError"]
            /\ UNCHANGED <<botRunning, botLoop>>
       ELSE /\ botErrors' = IF outcome = "ok" THEN 0 ELSE botErrors
            /\ CycleReturn(c)
  /\ UNCHANGED botStarted
  /\ UNCHANGED botOthers

\* alertError settled: `if (this.state.errorCount >= 5) await this.stop()`,
\* and stop() clears the interval and sets isRunning = false before it awaits
\* alertBotStatus
CycleAlerted(c) ==
  /\ bpc[c] = "alertError"
  /\ IF botErrors >= ErrorLimit
       THEN /\ botLoop' = FALSE
            /\ botRunning' = FALSE
            /\ bpc' = [bpc EXCEPT ![c] = "stopping"]
       ELSE CycleReturn(c)
  /\ UNCHANGED <<botErrors, botStarted>>
  /\ UNCHANGED botOthers

\* `await this.stop()` resumed: the finally block
CycleStopped(c) ==
  /\ bpc[c] = "stopping"
  /\ CycleReturn(c)
  /\ UNCHANGED <<botErrors, botStarted>>
  /\ UNCHANGED botOthers

BotInit ==
  /\ botRunning = FALSE
  /\ botErrors = 0
  /\ botLoop = FALSE
  /\ botStarted = FALSE
  /\ bpc = [c \in BotCallers |-> "idle"]

ExIdle == IdInit /\ RtInit /\ ApInit /\ BotInit

(***************************************************************************)
(* WebSocketManager: program subscriptions                                 *)
(***************************************************************************)
Min(S) == CHOOSE x \in S: \A y \in S: x <= y

\* connection.onProgramAccountChange registers a listener wrapping callback cb
ProgramListener(id, key, cb) == [id |-> id, kind |-> "program", key |-> key, cb |-> cb]

\* subscribeToProgram, when onProgramAccountChange returns an id: the listener
\* is registered and programSubscriptions.set(key, subscriptionId)
SubscribeToProgram(key, cb) ==
  /\ wsListeners' = wsListeners \cup {ProgramListener(wsNextId, key, cb)}
  /\ wsProgramSubs' = [wsProgramSubs EXCEPT ![key] = wsNextId]
  /\ wsNextId' = wsNextId + 1

\* removeProgramAccountChangeListener(id) resolved, then programSubscriptions.delete(key)
UnsubscribeFromProgram(key, id) ==
  /\ wsListeners' = {l \in wsListeners: l.id # id}
  /\ wsProgramSubs' = [wsProgramSubs EXCEPT ![key] = 0]
  /\ UNCHANGED wsNextId

(***************************************************************************)
(* MarketIndexer                                                           *)
(***************************************************************************)
\* history of a series of processAccount calls: how many settled, how many
\* decoded and normalized, how many were dispatched, and which failed first
ZeroStat == [settled |-> 0, ok |-> 0, dispatched |-> 0, firstBad |-> 0]
NoProgramLeft == [n |-> 0, settled |-> 0, ok |-> 0, dispatched |-> 0, firstBad |-> 0]

AddToStat(stat, index, kind, outcome) ==
  [settled |-> stat.settled + 1,
   ok |-> stat.ok + (IF kind = "ok" THEN 1 ELSE 0),
   dispatched |-> stat.dispatched + (IF outcome = "dispatched" THEN 1 ELSE 0),
   firstBad |-> IF stat.firstBad = 0 /\ kind # "ok" THEN index ELSE stat.firstBad]

\* Map.set(key, value): a new key goes last, a known key keeps its place
MapSet(m, key, value) ==
  IF \E i \in 1..Len(m): m[i][1] = key
    THEN [i \in 1..Len(m) |-> IF m[i][1] = key THEN <<key, value>> ELSE m[i]]
    ELSE Append(m, <<key, value>>)

\* `for (const programIdStr of programIds) { if (!adapter) continue; ...`: the
\* first index from k on whose program has an adapter (0: the loop is over)
NextWithAdapter(k) ==
  LET js == {j \in k..Len(ProgramIds): ProgramIds[j] \in registry}
  IN IF js = {} THEN 0 ELSE Min(js)

\* adapter.decodeAccount and adapter.normalize on an account of this kind
DecodeOk(kind) == kind # "badDecode"
NormalizeOk(kind) == kind # "badNormalize"

\* processAccount: decode, normalize, dispatch; a failure is logged and the
\* account dropped
ProcessAccount(kind) ==
  IF DecodeOk(kind) /\ NormalizeOk(kind) THEN "dispatched" ELSE "dropped"

\* (mutant of AccountFailureCaught) neither catch block is there
AccountFailureLeaks(kind) == FALSE

\* the try/catch of processAccount and of the batch's per-account wrapper
AccountFailureCaught(kind) == TRUE

\* startWebSocketSubscriptions from index k of programIds on, up to its next
\* await; after the loop start() goes on to startPolling() and returns
SubscribeFrom(s, k) ==
  LET j == NextWithAdapter(k)
  IN IF j = 0
       THEN /\ spc' = [spc EXCEPT ![s] = "idle"]
            /\ sprog' = [sprog EXCEPT ![s] = 0]
            /\ spendId' = [spendId EXCEPT ![s] = 0]
            /\ ixPollTimer' = TRUE
            /\ UNCHANGED wsVars
       ELSE /\ spc' = [spc EXCEPT ![s] = "awaitSubscribe"]
            /\ sprog' = [sprog EXCEPT ![s] = j]
            /\ UNCHANGED ixPollTimer
            /\ \E subscribed \in BOOLEAN:
                 IF subscribed
                   THEN /\ wsNextId <= MaxSubIds
                        /\ SubscribeToProgram(ProgramIds[j], "indexer")
                        /\ spendId' = [spendId EXCEPT ![s] = wsNextId]
                   ELSE \* onProgramAccountChange threw: subscribeToProgram rejects
                        /\ spendId' = [spendId EXCEPT ![s] = 0]
                        /\ UNCHANGED wsVars

\* initialSync from index k of programIds on, up to its next await; after the
\* loop start() goes on to startWebSocketSubscriptions()
SyncFrom(s, k) ==
  LET j == NextWithAdapter(k)
  IN /\ sn' = [sn EXCEPT ![s] = 0]
     /\ sbatch' = [sbatch EXCEPT ![s] = 0]
     /\ srunning' = [srunning EXCEPT ![s] = {}]
     /\ sabort' = [sabort EXCEPT ![s] = FALSE]
     /\ sstat' = [sstat EXCEPT ![s] = ZeroStat]
     /\ IF j # 0
          THEN \* await rpcClient.getProgramAccounts(programIdStr)
               /\ spc' = [spc EXCEPT ![s] = "awaitFetch"]
               /\ sprog' = [sprog EXCEPT ![s] = j]
               /\ UNCHANGED <<spendId, ixPollTimer, wsVars>>
          ELSE SubscribeFrom(s, 1)

ixStopFrame == <<tpc, titer, tid, stopCalls, removeFailed>>
gapVars == <<chainVer, gapSnap, gapSeen>>
ixPushFrame == <<pushStat, lastProbe>>

\* (mutant of AlreadyRunning) no guard
NeverRunning == FALSE

\* `if (this.isRunning) { logger.warn('Indexer already running'); return; }`
AlreadyRunning == ixRunning

\* start()
Start(s) ==
  /\ spc[s] = "idle"
  /\ UNCHANGED ixOthers
  /\ UNCHANGED gapVars
  /\ s \notin scalled
  /\ scalled' = scalled \cup {s}
  /\ stopQuiet' = FALSE
  /\ IF AlreadyRunning
       THEN UNCHANGED <<ixRunning, ixPollTimer, spc, sprog, sn, sbatch, srunning,
                        sabort, spendId, sstat, wsVars>>
       ELSE /\ ixRunning' = TRUE
            /\ SyncFrom(s, 1)
  /\ UNCHANGED <<registry, ixSubs, sleft, ixStopFrame, ixPushFrame>>

\* getProgramAccounts resolved with n accounts: the first batch starts
FetchReturn(s, n) ==
  /\ spc[s] = "awaitFetch"
  /\ UNCHANGED ixOthers
  /\ gapSnap' = [gapSnap EXCEPT ![s] = IF sprog[s] = 1 /\ n >= 1 THEN chainVer ELSE @]
  /\ UNCHANGED <<chainVer, gapSeen>>
  /\ IF n = 0
       THEN /\ sleft' = [sleft EXCEPT ![s] = NoProgramLeft]
            /\ SyncFrom(s, sprog[s] + 1)
       ELSE /\ spc' = [spc EXCEPT ![s] = "awaitBatch"]
            /\ sn' = [sn EXCEPT ![s] = n]
            /\ sbatch' = [sbatch EXCEPT ![s] = 1]
            /\ srunning' = [srunning EXCEPT ![s] = {i \in 1..n: i <= BatchSize}]
            /\ sstat' = [sstat EXCEPT ![s] = ZeroStat]
            /\ UNCHANGED <<sprog, sabort, spendId, sleft, ixPollTimer, wsVars>>
  /\ UNCHANGED <<registry, ixRunning, ixSubs, scalled, stopQuiet,
                 ixStopFrame, ixPushFrame>>

\* getProgramAccounts rejected: `catch { logger.error('Error syncing program') }`
FetchFail(s) ==
  /\ spc[s] = "awaitFetch"
  /\ UNCHANGED ixOthers
  /\ UNCHANGED gapVars
  /\ sleft' = [sleft EXCEPT ![s] = NoProgramLeft]
  /\ SyncFrom(s, sprog[s] + 1)
  /\ UNCHANGED <<registry, ixRunning, ixSubs, scalled, stopQuiet,
                 ixStopFrame, ixPushFrame>>

\* the processAccount call for account i of the batch settles
TaskFinish(s, i, kind) ==
  /\ spc[s] = "awaitBatch"
  /\ UNCHANGED ixOthers
  /\ gapSeen' = IF /\ sprog[s] = 1 /\ i = 1 /\ gapSnap[s] > 0
                    /\ ProcessAccount(kind) = "dispatched"
                  THEN gapSeen \cup {gapSnap[s]} ELSE gapSeen
  /\ UNCHANGED <<chainVer, gapSnap>>
  /\ i \in srunning[s]
  /\ srunning' = [srunning EXCEPT ![s] = srunning[s] \ {i}]
  /\ sstat' = [sstat EXCEPT ![s] = AddToStat(sstat[s], i, kind, ProcessAccount(kind))]
  /\ sabort' = [sabort EXCEPT ![s] =
       sabort[s] \/ (ProcessAccount(kind) = "dropped" /\ ~AccountFailureCaught(kind))]
  /\ UNCHANGED <<registry, ixRunning, ixPollTimer, ixSubs, spc, sprog, sn, sbatch,
                 spendId, sleft, scalled, stopQuiet, ixStopFrame, ixPushFrame,
                 wsVars>>

\* (mutant of BatchSettled) the batch is not awaited
BatchNotAwaited(s) == TRUE

\* `await Promise.all(batch.map(...))`: every call of the batch has settled
BatchSettled(s) == srunning[s] = {}

\* `await Promise.all(batch...)` resolved: the next batch, or the next program
BatchDone(s) ==
  /\ spc[s] = "awaitBatch"
  /\ UNCHANGED ixOthers
  /\ UNCHANGED gapVars
  /\ BatchSettled(s)
  /\ IF ~sabort[s] /\ sbatch[s] + BatchSize <= sn[s]
       THEN /\ sbatch' = [sbatch EXCEPT ![s] = sbatch[s] + BatchSize]
            /\ srunning' = [srunning EXCEPT ![s] = srunning[s] \cup
                 {i \in 1..sn[s]: /\ i >= sbatch[s] + BatchSize
                                  /\ i < sbatch[s] + 2 * BatchSize}]
            /\ UNCHANGED <<spc, sprog, sn, sabort, spendId, sstat, sleft,
                           ixPollTimer, wsVars>>
       ELSE /\ sleft' = [sleft EXCEPT ![s] =
                 [n |-> sn[s], settled |-> sstat[s].settled, ok |-> sstat[s].ok,
                  dispatched |-> sstat[s].dispatched, firstBad |-> sstat[s].firstBad]]
            /\ SyncFrom(s, sprog[s] + 1)
  /\ UNCHANGED <<registry, ixRunning, ixSubs, scalled, stopQuiet,
                 ixStopFrame, ixPushFrame>>

\* `await wsManager.subscribeToProgram(...)` settled: subscriptions.set, or the
\* catch block; then the next program
SubscribeResume(s) ==
  /\ spc[s] = "awaitSubscribe"
  /\ UNCHANGED ixOthers
  /\ UNCHANGED gapVars
  /\ ixSubs' = IF spendId[s] # 0
                 THEN MapSet(ixSubs, ProgramIds[sprog[s]], spendId[s])
                 ELSE ixSubs
  /\ SubscribeFrom(s, sprog[s] + 1)
  /\ UNCHANGED <<registry, ixRunning, sn, sbatch, srunning, sabort, sstat, sleft,
                 scalled, stopQuiet, ixStopFrame, ixPushFrame>>

\* stopWebSocketSubscriptions from position j of the Map iterator on, up to
\* its next await; after the loop subscriptions.clear() and stop() returns
StopFrom(j) ==
  IF j > Len(ixSubs)
    THEN /\ ixSubs' = <<>>
         /\ tpc' = "idle"
         /\ titer' = 0
         /\ tid' = 0
         /\ stopQuiet' = TRUE
    ELSE \* await wsManager.unsubscribeFromProgram(programId)
         /\ tpc' = "awaitRemove"
         /\ titer' = j
         /\ tid' = wsProgramSubs[ixSubs[j][1]]
         /\ UNCHANGED <<ixSubs, stopQuiet>>

\* stop()
Stop ==
  /\ tpc = "idle"
  /\ UNCHANGED ixOthers
  /\ UNCHANGED gapVars
  /\ stopCalls < MaxStopCalls
  /\ stopCalls' = stopCalls + 1
  /\ IF ~ixRunning
       THEN UNCHANGED <<ixRunning, ixPollTimer, ixSubs, tpc, titer, tid, stopQuiet>>
       ELSE /\ ixRunning' = FALSE
            /\ ixPollTimer' = FALSE
            /\ StopFrom(1)
  /\ UNCHANGED <<registry, spc, sprog, sn, sbatch, srunning, sabort, spendId,
                 scalled, sstat, sleft, removeFailed, ixPushFrame, wsVars>>

\* unsubscribeFromProgram settled: the listener was removed and the key
\* deleted (removed), or removeProgramAccountChangeListener rejected and the
\* indexer logged it; then the next entry of the Map
StopResume(removed) ==
  /\ tpc = "awaitRemove"
  /\ UNCHANGED ixOthers
  /\ UNCHANGED gapVars
  /\ IF tid = 0
       THEN removed /\ UNCHANGED <<wsVars, removeFailed>>
       ELSE IF removed
              THEN UnsubscribeFromProgram(ixSubs[titer][1], tid) /\ UNCHANGED removeFailed
              ELSE removeFailed' = TRUE /\ UNCHANGED wsVars
  /\ StopFrom(titer + 1)
  /\ UNCHANGED <<registry, ixRunning, ixPollTimer, spc, sprog, sn, sbatch, srunning,
                 sabort, spendId, scalled, stopCalls, sstat, sleft, ixPushFrame>>

\* the connection delivers an account change to one of the indexer's
\* listeners: handleAccountUpdate -> processAccount
Push(l, kind) ==
  /\ l \in wsListeners
  /\ UNCHANGED ixOthers
  /\ UNCHANGED gapVars
  /\ l.cb = "indexer"
  /\ l.key \in registry
  /\ pushStat.settled < MaxPushes
  /\ pushStat' = AddToStat(pushStat, pushStat.settled + 1, kind, ProcessAccount(kind))
  /\ UNCHANGED <<registry, ixRunning, ixPollTimer, ixSubs, spc, sprog, sn, sbatch,
                 srunning, sabort, spendId, scalled, sstat, sleft, lastProbe,
                 stopQuiet, ixStopFrame, wsVars>>

\* the mutation: a tick whose probe fails stops the indexer
PollTickStops(healthy) ==
  /\ ixPollTimer
  /\ UNCHANGED ixOthers
  /\ UNCHANGED gapVars
  /\ lastProbe' = IF ~ixRunning THEN lastProbe
                  ELSE IF healthy THEN "healthy" ELSE "unhealthy"
  /\ ixRunning' = (ixRunning /\ healthy)
  /\ UNCHANGED <<registry, ixPollTimer, ixSubs, spc, sprog, sn, sbatch,
                 srunning, sabort, spendId, scalled, sstat, sleft, pushStat,
                 stopQuiet, ixStopFrame, wsVars>>

\* the setInterval callback of startPolling: poll() -> rpcClient.healthCheck(),
\* which reports a probe that throws as unhealthy
PollTick(healthy) ==
  /\ ixPollTimer
  /\ UNCHANGED ixOthers
  /\ UNCHANGED gapVars
  /\ lastProbe' = IF ~ixRunning THEN lastProbe
                  ELSE IF healthy THEN "healthy" ELSE "unhealthy"
  /\ UNCHANGED <<registry, ixRunning, ixPollTimer, ixSubs, spc, sprog, sn, sbatch,
                 srunning, sabort, spendId, scalled, sstat, sleft, pushStat,
                 stopQuiet, ixStopFrame, wsVars>>

\* the indexer's listener for the first program, if the connection has one
FirstProgramListeners ==
  {l \in wsListeners: l.kind = "program" /\ l.key = ProgramIds[1] /\ l.cb = "indexer"}

\* the account changes on chain after start() was called: the connection
\* notifies the listeners registered at that moment, and the indexer's
\* listener runs handleAccountUpdate -> processAccount on the new state
ChainChange ==
  /\ scalled # {}
  /\ UNCHANGED ixOthers
  /\ chainVer < MaxChanges
  /\ chainVer' = chainVer + 1
  /\ gapSeen' = IF FirstProgramListeners # {} THEN gapSeen \cup {chainVer + 1} ELSE gapSeen
  /\ UNCHANGED <<registry, ixRunning, ixPollTimer, ixSubs, spc, sprog, sn, sbatch,
                 srunning, sabort, spendId, scalled, sstat, sleft, pushStat, lastProbe,
                 stopQuiet, ixStopFrame, wsVars, gapSnap>>

WsInit ==
  /\ wsListeners = {}
  /\ wsProgramSubs = [k \in ProgramKeys |-> 0]
  /\ wsNextId = 1

\* the state after `new MarketIndexer(config)`
IxInit ==
  /\ registry \in RegistryChoices
  /\ ixRunning = FALSE
  /\ ixPollTimer = FALSE
  /\ ixSubs = <<>>
  /\ spc = [s \in Starters |-> "idle"]
  /\ sprog = [s \in Starters |-> 0]
  /\ sn = [s \in Starters |-> 0]
  /\ sbatch = [s \in Starters |-> 0]
  /\ srunning = [s \in Starters |-> {}]
  /\ sabort = [s \in Starters |-> FALSE]
  /\ spendId = [s \in Starters |-> 0]
  /\ tpc = "idle"
  /\ titer = 0
  /\ tid = 0
  /\ scalled = {}
  /\ stopCalls = 0
  /\ sstat = [s \in Starters |-> ZeroStat]
  /\ sleft = [s \in Starters |-> NoProgramLeft]
  /\ pushStat = ZeroStat
  /\ lastProbe = "none"
  /\ stopQuiet = FALSE
  /\ removeFailed = FALSE
  /\ chainVer = 0
  /\ gapSnap = [s \in Starters |-> 0]
  /\ gapSeen = {}

\* the life cycle: concurrent start() calls, stop(), the poll timer
IxNext ==
  \/ \E s \in Starters: Start(s)
  \/ \E s \in Starters, n \in LifecycleAccounts: FetchReturn(s, n)
  \/ \E s \in Starters: FetchFail(s)
  \/ \E s \in Starters, kind \in AccountKinds: TaskFinish(s, 1, kind)
  \/ \E s \in Starters: BatchDone(s)
  \/ \E s \in Starters: SubscribeResume(s)
  \/ Stop
  \/ \E removed \in BOOLEAN: StopResume(removed)
  \/ \E healthy \in BOOLEAN: PollTick(healthy)

\* one caller of start(): the initial sync in batches, then the pushes of the
\* subscriptions
SyncNext ==
  \/ Start("s1")
  \/ \E n \in 0..MaxAccounts: FetchReturn("s1", n)
  \/ FetchFail("s1")
  \/ \E i \in 1..MaxAccounts, kind \in AccountKinds: TaskFinish("s1", i, kind)
  \/ BatchDone("s1")
  \/ SubscribeResume("s1")
  \/ \E l \in wsListeners, kind \in AccountKinds: Push(l, kind)

(***************************************************************************)
(* SolanaRpcClient: executeWithRetry, failover                             *)
(***************************************************************************)
\* shouldFailover: the message includes one of these
FailoverMarkers == {"timeout", "network", "econnrefused", "429", "503", "504"}

ShouldFailover(message) == message \in FailoverMarkers

IsError(out) == out \in ErrorMessages

\* the mutation: the index is left where it is
SameEndpoint(index, n) == index

\* (currentEndpointIndex + 1) % endpoints.length
NextEndpoint(index, n) == (index + 1) % n

\* getCurrentEndpoint(): endpoints[currentEndpointIndex], an endpoint being
\* named by its index
GetCurrentEndpoint == rpcIndex

\* Math.min(delay * backoffMultiplier, maxDelayMs)
NextDelay(delay) == IF delay * BackoffMultiplier <= MaxDelayMs
                      THEN delay * BackoffMultiplier ELSE MaxDelayMs

Epoch == Len(advances)

LastInv(c) == cinv[c][Len(cinv[c])]

\* operation(this.connection): the operation is started against the endpoint
\* of the connection the client holds at that moment
Invoke(c, first) ==
  cinv' = [cinv EXCEPT ![c] = Append(@, [ep |-> rpcConn, first |-> first,
                                         epoch |-> Epoch, out |-> "pending"])]

\* the operation settled with out
Settle(c, out) == [cinv EXCEPT ![c][Len(cinv[c])].out = out]

\* (mutant of LastAttempt) one attempt more before giving up
OneMoreAttempt(attempt) == attempt = MaxAttempts + 1

\* `if (attempt === opts.maxAttempts)`
LastAttempt(attempt) == attempt = MaxAttempts

\* withRetry's catch block: the last attempt rethrows, any other attempt
\* sleeps delay, whatever the error is
AttemptFailed(c) ==
  IF LastAttempt(cattempt[c])
    THEN /\ cpc' = [cpc EXCEPT ![c] = "done"]
         /\ cresult' = [cresult EXCEPT ![c] = "error"]
         /\ UNCHANGED cslept
    ELSE /\ cpc' = [cpc EXCEPT ![c] = "sleep"]
         /\ cslept' = [cslept EXCEPT ![c] = Append(@, cdelay[c])]
         /\ UNCHANGED cresult

\* executeWithRetry(operation): withRetry starts attempt 1, which invokes the
\* operation
Call(c) ==
  /\ cpc[c] = "idle"
  /\ UNCHANGED rpcOthers
  /\ cpc' = [cpc EXCEPT ![c] = "awaitOp"]
  /\ cattempt' = [cattempt EXCEPT ![c] = 1]
  /\ cdelay' = [cdelay EXCEPT ![c] = InitialDelayMs]
  /\ Invoke(c, TRUE)
  /\ UNCHANGED <<rpcN, rpcIndex, rpcConn, failoverInProgress, cresult, cslept,
                 advances>>

\* the first invocation of an attempt settled: a result is returned; an error
\* shouldFailover accepts calls failover(), which returns at once when one is
\* in progress or there is a single endpoint, and otherwise advances the index,
\* replaces the connection and probes it; any other error is thrown to
\* withRetry
OpReturn(c, out) ==
  /\ cpc[c] = "awaitOp"
  /\ UNCHANGED rpcOthers
  /\ LET settled == Settle(c, out) IN
     IF ~IsError(out)
       THEN /\ cinv' = settled
            /\ cpc' = [cpc EXCEPT ![c] = "done"]
            /\ cresult' = [cresult EXCEPT ![c] = "ok"]
            /\ UNCHANGED <<rpcIndex, rpcConn, failoverInProgress, cslept, advances>>
       ELSE IF ShouldFailover(out)
         THEN /\ cinv' = settled
              /\ IF failoverInProgress \/ rpcN <= 1
                   THEN /\ cpc' = [cpc EXCEPT ![c] = "afterFailover"]
                        /\ UNCHANGED <<rpcIndex, rpcConn, failoverInProgress, advances>>
                   ELSE /\ failoverInProgress' = TRUE
                        /\ rpcIndex' = NextEndpoint(rpcIndex, rpcN)
                        /\ rpcConn' = NextEndpoint(rpcIndex, rpcN)
                        /\ advances' = Append(advances,
                                         [by |-> c, from |-> LastInv(c).ep,
                                          epoch |-> LastInv(c).epoch])
                        /\ cpc' = [cpc EXCEPT ![c] = "awaitProbe"]
              /\ UNCHANGED <<cresult, cslept>>
         ELSE /\ cinv' = settled
              /\ AttemptFailed(c)
              /\ UNCHANGED <<rpcIndex, rpcConn, failoverInProgress, advances>>
  /\ UNCHANGED <<rpcN, cattempt, cdelay>>

\* the probe getSlot() of failover settled: the flag is cleared; a rejection
\* is rethrown and reaches withRetry
ProbeReturn(c, ok) ==
  /\ cpc[c] = "awaitProbe"
  /\ UNCHANGED rpcOthers
  /\ failoverInProgress' = FALSE
  /\ IF ok
       THEN /\ cpc' = [cpc EXCEPT ![c] = "afterFailover"]
            /\ UNCHANGED <<cresult, cslept>>
       ELSE AttemptFailed(c)
  /\ UNCHANGED <<rpcN, rpcIndex, rpcConn, cattempt, cdelay, cinv, advances>>

\* `await this.failover()` resumed: `return await operation(this.connection)`
RetryInvoke(c) ==
  /\ cpc[c] = "afterFailover"
  /\ UNCHANGED rpcOthers
  /\ cpc' = [cpc EXCEPT ![c] = "awaitRetryOp"]
  /\ Invoke(c, FALSE)
  /\ UNCHANGED <<rpcN, rpcIndex, rpcConn, failoverInProgress, cattempt, cdelay,
                 cresult, cslept, advances>>

\* the invocation after the failover settled: its error goes to withRetry
RetryReturn(c, out) ==
  /\ cpc[c] = "awaitRetryOp"
  /\ UNCHANGED rpcOthers
  /\ cinv' = Settle(c, out)
  /\ IF ~IsError(out)
       THEN /\ cpc' = [cpc EXCEPT ![c] = "done"]
            /\ cresult' = [cresult EXCEPT ![c] = "ok"]
            /\ UNCHANGED cslept
       ELSE AttemptFailed(c)
  /\ UNCHANGED <<rpcN, rpcIndex, rpcConn, failoverInProgress, cattempt, cdelay,
                 advances>>

\* sleep(delay) is over: the delay grows, the next attempt invokes the operation
Wake(c) ==
  /\ cpc[c] = "sleep"
  /\ UNCHANGED rpcOthers
  /\ cdelay' = [cdelay EXCEPT ![c] = NextDelay(@)]
  /\ cattempt' = [cattempt EXCEPT ![c] = @ + 1]
  /\ cpc' = [cpc EXCEPT ![c] = "awaitOp"]
  /\ Invoke(c, TRUE)
  /\ UNCHANGED <<rpcN, rpcIndex, rpcConn, failoverInProgress, cresult, cslept,
                 advances>>

\* the state after `new SolanaRpcClient(rpcConfig)`
RpcInit ==
  /\ rpcN \in 1..MaxEndpoints
  /\ rpcIndex = 0
  /\ rpcConn = 0
  /\ failoverInProgress = FALSE
  /\ cpc = [c \in Callers |-> "idle"]
  /\ cattempt = [c \in Callers |-> 0]
  /\ cdelay = [c \in Callers |-> 0]
  /\ cresult = [c \in Callers |-> "none"]
  /\ cinv = [c \in Callers |-> <<>>]
  /\ cslept = [c \in Callers |-> <<>>]
  /\ advances = <<>>

Outcomes == {"ok"} \cup ErrorMessages

\* one executeWithRetry call at a time
RpcSeqNext ==
  \/ Call("c1")
  \/ \E out \in Outcomes: OpReturn("c1", out)
  \/ \E ok \in BOOLEAN: ProbeReturn("c1", ok)
  \/ RetryInvoke("c1")
  \/ \E out \in Outcomes: RetryReturn("c1", out)
  \/ Wake("c1")

\* concurrent executeWithRetry calls, of operations that succeed or time out,
\* on endpoints that answer the probe
RpcNext ==
  \/ \E c \in Callers: Call(c)
  \/ \E c \in Callers, out \in {"ok", "timeout"}: OpReturn(c, out)
  \/ \E c \in Callers: ProbeReturn(c, TRUE)
  \/ \E c \in Callers: RetryInvoke(c)
  \/ \E c \in Callers, out \in {"ok", "timeout"}: RetryReturn(c, out)
  \/ \E c \in Callers: Wake(c)

(***************************************************************************)
(* WebSocketManager: account subscriptions, unsubscribe, reconnection      *)
(***************************************************************************)
\* connection.onAccountChange registers a listener wrapping callback cb
AccountListener(id, key, cb) == [id |-> id, kind |-> "account", key |-> key, cb |-> cb]

\* the id the manager tracks under a key (0: none)
TrackedId(kind, key) ==
  IF kind = "account" THEN wsAccountSubs[key] ELSE wsProgramSubs[key]

\* the listeners on the connection that the manager tracks under their key
TrackedSubs == {l \in wsListeners: TrackedId(l.kind, l.key) = l.id}

RECURSIVE Pow2(_)
Pow2(n) == IF n = 0 THEN 1 ELSE 2 * Pow2(n - 1)

\* the mutation: the delay is not capped
UncappedDelay(attempt) == ReconnectDelay * Pow2(attempt - 1)

\* Math.min(reconnectDelay * Math.pow(2, reconnectAttempts - 1), 30000)
ReconnectDelayOf(attempt) ==
  IF ReconnectDelay * Pow2(attempt - 1) <= ReconnectDelayCap
    THEN ReconnectDelay * Pow2(attempt - 1) ELSE ReconnectDelayCap

\* subscribeToProgram called by a user of the manager
WsSubscribeProgram(key, cb) ==
  /\ wsNextId <= MaxWsSubs
  /\ UNCHANGED wsOthers
  /\ SubscribeToProgram(key, cb)
  /\ UNCHANGED wrVars

\* subscribeToAccount: the listener is registered and
\* accountSubscriptions.set(key, subscriptionId)
WsSubscribeAccount(key, cb) ==
  /\ wsNextId <= MaxWsSubs
  /\ UNCHANGED wsOthers
  /\ wsListeners' = wsListeners \cup {AccountListener(wsNextId, key, cb)}
  /\ wsAccountSubs' = [wsAccountSubs EXCEPT ![key] = wsNextId]
  /\ wsNextId' = wsNextId + 1
  /\ UNCHANGED <<wsProgramSubs, reconnectAttempts, isReconnecting, rcpc, upc, ureq,
                 rcCalls, rcProbes, rcDelays, rcBefore, rcAfter>>

\* unsubscribeFromAccount / unsubscribeFromProgram, up to the await of the
\* removal (with no entry under the key the call returns and nothing changes)
WsUnsubscribe(kind, key) ==
  /\ upc = "idle"
  /\ TrackedId(kind, key) # 0
  /\ UNCHANGED wsOthers
  /\ upc' = "awaitRemove"
  /\ ureq' = [kind |-> kind, key |-> key, id |-> TrackedId(kind, key)]
  /\ UNCHANGED <<wsVars, wsAccountSubs, reconnectAttempts, isReconnecting, rcpc,
                 rcCalls, rcProbes, rcDelays, rcBefore, rcAfter>>

\* the removal settled: the listener is gone and the key is deleted from the
\* map, or the rejection is rethrown and the entry stays
WsUnsubscribeResume(removed) ==
  /\ upc = "awaitRemove"
  /\ UNCHANGED wsOthers
  /\ upc' = "idle"
  /\ ureq' = [kind |-> "none", key |-> "none", id |-> 0]
  /\ IF removed
       THEN /\ wsListeners' = {l \in wsListeners: l.id # ureq.id}
            /\ wsAccountSubs' = IF ureq.kind = "account"
                                  THEN [wsAccountSubs EXCEPT ![ureq.key] = 0]
                                  ELSE wsAccountSubs
            /\ wsProgramSubs' = IF ureq.kind = "program"
                                  THEN [wsProgramSubs EXCEPT ![ureq.key] = 0]
                                  ELSE wsProgramSubs
       ELSE UNCHANGED <<wsListeners, wsAccountSubs, wsProgramSubs>>
  /\ UNCHANGED <<wsNextId, reconnectAttempts, isReconnecting, rcpc, rcCalls,
                 rcProbes, rcDelays, rcBefore, rcAfter>>

\* the body of handleReconnect up to `await sleep(delay)`: the attempt is
\* counted; past maxReconnectAttempts the call throws, and so does every call
\* it was made from
Reconnect(delays) ==
  /\ reconnectAttempts' = reconnectAttempts + 1
  /\ IF reconnectAttempts + 1 > MaxReconnectAttempts
       THEN /\ isReconnecting' = FALSE
            /\ rcpc' = "failed"
            /\ rcDelays' = delays
       ELSE /\ isReconnecting' = TRUE
            /\ rcpc' = "sleep"
            /\ rcDelays' = Append(delays, ReconnectDelayOf(reconnectAttempts + 1))

\* handleReconnect() called by the owner (a call made while isReconnecting
\* returns at once and changes nothing)
HandleReconnect ==
  /\ rcpc \in {"idle", "done", "failed"}
  /\ ~isReconnecting
  /\ rcCalls < MaxReconnectCalls
  /\ UNCHANGED wsOthers
  /\ rcCalls' = rcCalls + 1
  /\ rcProbes' = 0
  /\ Reconnect(<<>>)
  /\ rcBefore' = {}
  /\ rcAfter' = {}
  /\ UNCHANGED <<wsVars, wsAccountSubs, upc, ureq>>

\* sleep(delay) is over: the probe getSlot() is sent
ReconnectWake ==
  /\ rcpc = "sleep"
  /\ UNCHANGED wsOthers
  /\ rcpc' = "awaitProbe"
  /\ rcProbes' = rcProbes + 1
  /\ UNCHANGED <<wsVars, wsAccountSubs, reconnectAttempts, isReconnecting, upc,
                 ureq, rcCalls, rcDelays, rcBefore, rcAfter>>

\* resubscribeAll: both maps are cleared, nothing is subscribed again
ResubscribeAll ==
  /\ wsAccountSubs' = [k \in AccountKeys |-> 0]
  /\ wsProgramSubs' = [k \in ProgramKeys |-> 0]
  /\ UNCHANGED <<wsListeners, wsNextId>>

\* the probe settled: resubscribeAll runs, or the catch block clears the flag
\* and calls handleReconnect again
ReconnectProbe(ok) ==
  /\ rcpc = "awaitProbe"
  /\ UNCHANGED wsOthers
  /\ IF ok
       THEN /\ rcBefore' = TrackedSubs
            /\ ResubscribeAll
            /\ rcpc' = "awaitResub"
            /\ UNCHANGED <<reconnectAttempts, isReconnecting, rcDelays>>
       ELSE /\ Reconnect(rcDelays)
            /\ UNCHANGED <<wsVars, wsAccountSubs, rcBefore>>
  /\ UNCHANGED <<upc, ureq, rcCalls, rcProbes, rcAfter>>

\* `await this.resubscribeAll()` resumed: the counter and the flag are reset
ReconnectFinish ==
  /\ rcpc = "awaitResub"
  /\ UNCHANGED wsOthers
  /\ reconnectAttempts' = 0
  /\ isReconnecting' = FALSE
  /\ rcpc' = "done"
  /\ rcAfter' = TrackedSubs
  /\ UNCHANGED <<wsVars, wsAccountSubs, upc, ureq, rcCalls, rcProbes, rcDelays,
                 rcBefore>>

\* the fields of a new WebSocketManager that WsInit does not cover
WrInit ==
  /\ wsAccountSubs = [k \in AccountKeys |-> 0]
  /\ reconnectAttempts = 0
  /\ isReconnecting = FALSE
  /\ rcpc = "idle"
  /\ upc = "idle"
  /\ ureq = [kind |-> "none", key |-> "none", id |-> 0]
  /\ rcCalls = 0
  /\ rcProbes = 0
  /\ rcDelays = <<>>
  /\ rcBefore = {}
  /\ rcAfter = {}

\* one program and one account subscribed to, unsubscribed from and
\* subscribed to again, across the reconnections
WsNext ==
  \/ \E cb \in WsCallbacks: WsSubscribeProgram(ProgramIds[1], cb)
  \/ \E key \in AccountKeys, cb \in WsCallbacks: WsSubscribeAccount(key, cb)
  \/ WsUnsubscribe("program", ProgramIds[1])
  \/ \E key \in AccountKeys: WsUnsubscribe("account", key)
  \/ \E removed \in BOOLEAN: WsUnsubscribeResume(removed)
  \/ HandleReconnect
  \/ ReconnectWake
  \/ \E ok \in BOOLEAN: ReconnectProbe(ok)
  \/ ReconnectFinish

(***************************************************************************)
(* Account bytes: Buffer reads, DecoderUtils                               *)
(***************************************************************************)
\* a Buffer is a sequence of bytes; offset k of the code is position k + 1
Zeros(n) == [i \in 1..n |-> 0]

\* what a decoder function leaves with when a read throws
Thrown == [ok |-> FALSE]

\* Buffer.readUInt8 / readUInt16LE / ... throw a RangeError unless the whole
\* field lies inside the buffer
InRange(buf, off, size) == off >= 0 /\ off + size <= Len(buf)

\* Buffer.subarray(start, end): both ends are clamped to the buffer, it never
\* throws
Subarray(buf, start, end) ==
  LET s == IF start > Len(buf) THEN Len(buf) ELSE start
      e == IF end > Len(buf) THEN Len(buf) ELSE end
  IN IF e <= s THEN <<>> ELSE SubSeq(buf, s + 1, e)

\* the little-endian unsigned value of size bytes at off (readUInt8,
\* readUInt16LE, and readUInt32LE of a length prefix)
RECURSIVE ReadLE(_, _, _)
ReadLE(buf, off, size) ==
  IF size = 0 THEN 0
  ELSE LET high == ReadLE(buf, off + 1, size - 1)
       IN buf[off + 1] + (IF high = 0 THEN 0 ELSE 256 * high)

\* readUInt32LE, readBigUInt64LE and readBigInt64LE of a field: the integer is
\* named by its little-endian bytes
ReadInt(buf, off, size) == SubSeq(buf, off + 1, off + size)

\* DecoderUtils.readPublicKey: the hex string of the (clamped) 32 bytes, a hex
\* string being named by the bytes it spells
ReadPublicKey(buf, off) == Subarray(buf, off, off + 32)

\* DecoderUtils.readString: the (clamped) bytes up to the first null byte
ReadString(buf, off, length) ==
  LET bytes == Subarray(buf, off, off + length)
      nulls == {i \in 1..Len(bytes): bytes[i] = 0}
  IN IF nulls = {} THEN bytes ELSE SubSeq(bytes, 1, Min(nulls) - 1)

\* DecoderUtils.readStringWithLength: the u32 prefix is read with a bounds
\* check, the value is the (clamped) subarray, bytesRead is 4 + length
ReadStringWithLength(buf, off) ==
  IF ~InRange(buf, off, 4) THEN Thrown
  ELSE LET length == ReadLE(buf, off, 4)
       IN [ok |-> TRUE,
           value |-> Subarray(buf, off + 4, off + 4 + length),
           bytesRead |-> 4 + length]

\* DecoderUtils.readBool
ReadBool(buf, off) == ReadLE(buf, off, 1) # 0

\* DecoderUtils.readF64 on the bit patterns the accounts of the model hold: a
\* double is named by <<numerator, denominator>>, NaN by <<0, 0>>
F64Patterns ==
  [zero |-> <<0, 0>>, half |-> <<224, 63>>, one |-> <<240, 63>>,
   onehalf |-> <<248, 63>>, minushalf |-> <<224, 191>>, nan |-> <<248, 127>>]

ReadF64(buf, off) ==
  LET top == <<buf[off + 7], buf[off + 8]>>
  IN IF top = F64Patterns.zero THEN <<0, 1>>
     ELSE IF top = F64Patterns.half THEN <<1, 2>>
     ELSE IF top = F64Patterns.one THEN <<1, 1>>
     ELSE IF top = F64Patterns.onehalf THEN <<3, 2>>
     ELSE IF top = F64Patterns.minushalf THEN <<-1, 2>>
     ELSE <<0, 0>>

\* a decimal string is named by the integer it spells: bigint.toString(),
\* then BigInt(string) and parseInt(string), which give the value of the
\* (non-negative) integer
ToDecimalString(n) == <<"dec", n>>
BigIntOf(str) == ReadLE(str[2], 0, Len(str[2]))
ParseInt(str) == ReadLE(str[2], 0, Len(str[2]))

RECURSIVE Gcd(_, _)
Gcd(a, b) == IF b = 0 THEN a ELSE Gcd(b, a % b)

\* the quotient a / b of two numbers (b > 0), as a fraction in lowest terms;
\* the rounding of the floating-point division is left out
Ratio(a, b) ==
  LET g == Gcd(IF a < 0 THEN -a ELSE a, b)
  IN <<a \div g, b \div g>>

(***************************************************************************)
(* The account decoders of the adapters                                    *)
(***************************************************************************)
\* offsets of decodeMarketAccount: discriminator 8, address 32, name 64,
\* description 256, authority 32, oracle 32, then status, numOutcomes, the
\* outcome records (name 32, pool 8, bettors 4) and the trailer
HxStatusOff == 8 + 32 + 64 + 256 + 32 + 32
HxOutcomesOff == HxStatusOff + 1 + 1
HxOutcomeSize == 32 + 8 + 4
HxTrailerSize == 8 + 8 + 8 + 8 + 1 + 2 + 8 + 8

\* <<offset, size>> of the numeric reads of the trailer that starts at tr
HxTrailerReads(tr) ==
  <<<<tr, 8>>, <<tr + 8, 8>>, <<tr + 16, 8>>, <<tr + 24, 8>>, <<tr + 32, 1>>,
    <<tr + 33, 2>>, <<tr + 35, 8>>, <<tr + 43, 8>>>>

\* HxroAdapter.decodeMarketAccount: any read that throws is rethrown (the odds
\* of an outcome, from which normalize computes only lastPrice, are left out)
HxroDecodeMarketAccount(buf) ==
  IF ~InRange(buf, HxStatusOff, 1) \/ ~InRange(buf, HxStatusOff + 1, 1) THEN Thrown
  ELSE
    LET numOutcomes == ReadLE(buf, HxStatusOff + 1, 1)
        at(i) == HxOutcomesOff + HxOutcomeSize * i
        tr == at(numOutcomes)
        reads == HxTrailerReads(tr)
    IN IF \E i \in 0..(numOutcomes - 1):
            ~InRange(buf, at(i) + 32, 8) \/ ~InRange(buf, at(i) + 40, 4)
         THEN Thrown
       ELSE IF \E k \in 1..Len(reads): ~InRange(buf, reads[k][1], reads[k][2])
         THEN Thrown
       ELSE
         [ok |-> TRUE,
          data |->
            [marketAddress |-> ReadPublicKey(buf, 8),
             marketName |-> ReadString(buf, 40, 64),
             marketDescription |-> ReadString(buf, 104, 256),
             marketAuthority |-> ReadPublicKey(buf, 360),
             oracleAddress |-> ReadPublicKey(buf, 392),
             marketStatus |-> ReadLE(buf, HxStatusOff, 1),
             outcomes |->
               [j \in 1..numOutcomes |->
                  [id |-> j - 1,
                   name |-> ReadString(buf, at(j - 1), 32),
                   pool |-> ToDecimalString(ReadInt(buf, at(j - 1) + 32, 8)),
                   bettors |-> ReadInt(buf, at(j - 1) + 40, 4)]],
             totalPool |-> ToDecimalString(ReadInt(buf, tr, 8)),
             settlementTime |-> ToDecimalString(ReadInt(buf, tr + 8, 8)),
             createdAt |-> ToDecimalString(ReadInt(buf, tr + 16, 8)),
             settledAt |-> ToDecimalString(ReadInt(buf, tr + 24, 8)),
             winningOutcome |-> ReadLE(buf, tr + 32, 1),
             feePercent |-> ReadLE(buf, tr + 33, 2),
             minStake |-> ToDecimalString(ReadInt(buf, tr + 35, 8)),
             maxStake |-> ToDecimalString(ReadInt(buf, tr + 43, 8))]]

\* <<offset, size>> of the numeric reads of decodeFeedAccount, in its order:
\* four u32, startAfter, varianceThreshold, forceReportPeriod, expiration,
\* consecutiveFailureCount, nextAllowedUpdateTime, isLocked, then the two
\* rounds at 329 and 385
SbRoundReads(r) ==
  <<<<r, 4>>, <<r + 4, 4>>, <<r + 8, 8>>, <<r + 16, 8>>, <<r + 24, 8>>,
    <<r + 32, 8>>, <<r + 40, 8>>, <<r + 48, 8>>>>

SbReads ==
  <<<<232, 4>>, <<236, 4>>, <<240, 4>>, <<244, 4>>, <<248, 8>>, <<256, 8>>,
    <<264, 8>>, <<272, 8>>, <<280, 8>>, <<288, 8>>, <<296, 1>>>>
  \o SbRoundReads(329) \o SbRoundReads(385)

SbRound(buf, r) ==
  [numSuccess |-> ReadInt(buf, r, 4),
   numError |-> ReadInt(buf, r + 4, 4),
   roundOpenSlot |-> ToDecimalString(ReadInt(buf, r + 8, 8)),
   roundOpenTimestamp |-> ToDecimalString(ReadInt(buf, r + 16, 8)),
   result |-> ReadF64(buf, r + 24),
   stdDeviation |-> ReadF64(buf, r + 32)]

\* SwitchboardAdapter.decodeFeedAccount (of the fields normalize does not read,
\* only the reads are kept)
SwitchboardDecodeFeedAccount(buf) ==
  IF \E k \in 1..Len(SbReads): ~InRange(buf, SbReads[k][1], SbReads[k][2])
    THEN Thrown
    ELSE [ok |-> TRUE,
          data |->
            [name |-> ReadString(buf, 8, 32),
             metadata |-> ReadString(buf, 40, 128),
             authority |-> ReadPublicKey(buf, 168),
             queueAddress |-> ReadPublicKey(buf, 200),
             minOracleResults |-> ReadInt(buf, 236, 4),
             expiration |-> ToDecimalString(ReadInt(buf, 272, 8)),
             consecutiveFailureCount |-> ToDecimalString(ReadInt(buf, 280, 8)),
             isLocked |-> ReadBool(buf, 296),
             latestConfirmedRound |-> SbRound(buf, 329),
             currentRound |-> SbRound(buf, 385)]]

\* the decoder functions, by the account type they are registered under
DecoderNames == {"ParimutuelMarket", "AggregatorAccount"}

DecoderFn(name, buf) ==
  IF name = "ParimutuelMarket" THEN HxroDecodeMarketAccount(buf)
  ELSE SwitchboardDecodeFeedAccount(buf)

\* the mutation: a decoder that keeps a trace of when it was called
StampedDecode(name, buf) ==
  IF DecoderFn(name, buf).ok THEN [ok |-> TRUE, type |-> name, data |-> <<acNowMs>>]
  ELSE Thrown

\* ManualAccountDecoder.decode: { type, data } or the error of the function
ManualDecode(name, buf) ==
  LET decoded == DecoderFn(name, buf)
  IN IF decoded.ok THEN [ok |-> TRUE, type |-> name, data |-> decoded.data]
     ELSE Thrown

\* the mutation: validate only looks at the discriminator's length
ValidateByLength(name, buf) == Len(buf) >= 8

\* ManualAccountDecoder.validate: decode in a try block
ManualValidate(name, buf) == ManualDecode(name, buf).ok

\* the mutation: the last decoder that validates
RECURSIVE LastValidDecode(_, _)
LastValidDecode(decoders, buf) ==
  IF decoders = <<>> THEN Thrown
  ELSE LET d == decoders[Len(decoders)]
       IN IF ManualValidate(d, buf) THEN ManualDecode(d, buf)
          ELSE LastValidDecode(SubSeq(decoders, 1, Len(decoders) - 1), buf)

\* MultiAccountDecoder.decode and BaseMarketAdapter.decodeAccount: the decode
\* of the first decoder, in order, whose validate returns true; an error when
\* there is none
RECURSIVE MultiDecode(_, _)
MultiDecode(decoders, buf) ==
  IF decoders = <<>> THEN Thrown
  ELSE IF ManualValidate(Head(decoders), buf) THEN ManualDecode(Head(decoders), buf)
  ELSE MultiDecode(Tail(decoders), buf)

\* MultiAccountDecoder.validate: decoders.some(validate)
MultiValidate(decoders, buf) ==
  \E k \in 1..Len(decoders): ManualValidate(decoders[k], buf)

(***************************************************************************)
(* Accounts as the chain encodes them                                      *)
(***************************************************************************)
\* n in size bytes, little-endian
RECURSIVE LE(_, _)
LE(n, size) == IF size = 0 THEN <<>> ELSE <<n % 256>> \o LE(n \div 256, size - 1)

Fill(n, byte) == [i \in 1..n |-> byte]

RECURSIVE HxOutcomeBytes(_, _)
HxOutcomeBytes(pools, i) ==
  IF i > Len(pools) THEN <<>>
  ELSE <<64 + i>> \o Zeros(31) \o LE(pools[i], 8) \o LE(i, 4)
       \o HxOutcomeBytes(pools, i + 1)

\* a parimutuel market account, in the layout decodeMarketAccount reads
HxroAccountBytes(a) ==
  <<5, 0, 0, 0, 0, 0, 0, 0>> \o Fill(32, 1) \o <<77>> \o Zeros(63) \o Zeros(256)
  \o Fill(32, 2) \o Fill(32, 3) \o <<a.status, Len(a.pools)>>
  \o HxOutcomeBytes(a.pools, 1)
  \o LE(a.total, 8) \o LE(2000, 8) \o LE(1000, 8) \o LE(0, 8)
  \o <<a.winning>> \o LE(a.fee, 2) \o LE(1, 8) \o LE(1000, 8)

\* an oracle feed account, in the layout decodeFeedAccount reads
SbRoundBytes(result) ==
  LE(3, 4) \o LE(1, 4) \o LE(7, 8) \o LE(1000, 8) \o Zeros(6) \o result
  \o Zeros(8) \o Zeros(8) \o Zeros(8)

FeedAccountBytes(f) ==
  <<5, 0, 0, 0, 0, 0, 0, 0>> \o <<70>> \o Zeros(31) \o Zeros(128) \o Fill(32, 2)
  \o Fill(32, 4) \o LE(1, 4) \o LE(1, 4) \o LE(1, 4) \o LE(1, 4)
  \o LE(0, 8) \o Zeros(8) \o LE(0, 8) \o LE(f.expiration, 8) \o LE(0, 8)
  \o LE(0, 8) \o <<IF f.isLocked THEN 1 ELSE 0>> \o Fill(32, 6)
  \o SbRoundBytes(F64Patterns[f.result]) \o SbRoundBytes(F64Patterns.zero)

(***************************************************************************)
(* Normalization                                                           *)
(***************************************************************************)
\* a number of the code: <<numerator, denominator>>, NaN being <<0, 0>>
IsNaN(x) == x[2] = 0
Less(x, y) == ~IsNaN(x) /\ ~IsNaN(y) /\ x[1] * y[2] < y[1] * x[2]

\* Math.max(0, Math.min(1, x)): NaN stays NaN
Clamp01(x) ==
  IF IsNaN(x) THEN x
  ELSE IF Less(x, <<0, 1>>) THEN <<0, 1>>
  ELSE IF Less(<<1, 1>>, x) THEN <<1, 1>>
  ELSE x

\* 1 - x
Complement(x) == IF IsNaN(x) THEN x ELSE Ratio(x[2] - x[1], x[2])

\* (mutant of NormalizeOutcome) the outcome as the adapter built it
OutcomeAsGiven(o) == o

\* MarketNormalizer.normalizeOutcome: `probability || 0` (NaN and 0 give 0),
\* then the two range checks
NormalizeOutcome(o) ==
  LET p == IF IsNaN(o.probability) THEN <<0, 1>> ELSE o.probability
  IN [o EXCEPT !.probability =
        IF Less(p, <<0, 1>>) THEN <<0, 1>>
        ELSE IF Less(<<1, 1>>, p) THEN <<1, 1>> ELSE p]

\* MarketNormalizer.normalizeMarket: the zod check needs a non-empty id,
\* programId and address (and a name, which both adapters default)
NormalizeMarket(m) ==
  IF m.id = "" \/ m.programId = "" \/ m.address = "" THEN Thrown
  ELSE [ok |-> TRUE, market |-> m]

\* (mutant of HxroStatus) the table is not consulted
HxroStatusDefault(code) == "active"

\* statusMap[market.marketStatus] || 'active'
HxroStatus(code) ==
  CASE code = 0 -> "active"
    [] code = 1 -> "paused"
    [] code = 2 -> "settled"
    [] code = 3 -> "cancelled"
    [] OTHER -> "active"

\* the mutation: every outcome gets an equal share
HxroEqualShare(pool, totalPool, n) == Ratio(1, n)

\* the probability of an outcome in HxroAdapter.normalize
HxroProbability(pool, totalPool, n) ==
  Clamp01(IF totalPool > 0 THEN Ratio(pool, totalPool) ELSE Ratio(1, n))

\* HxroAdapter.normalize
HxroNormalize(decoded, account) ==
  LET market == decoded.data
      totalPool == BigIntOf(market.totalPool)
      n == Len(market.outcomes)
  IN NormalizeMarket(
       [id |-> account.address,
        programId |-> account.programId,
        address |-> account.address,
        category |-> "parimutuel",
        status |-> HxroStatus(market.marketStatus),
        outcomes |->
          [j \in 1..n |->
             NormalizeOutcome(
               [id |-> <<account.address, market.outcomes[j].id>>,
                probability |->
                  HxroProbability(BigIntOf(market.outcomes[j].pool), totalPool, n),
                volume |-> market.outcomes[j].pool])],
        winningOutcome |->
          IF market.winningOutcome # 255
            THEN <<<<account.address, market.winningOutcome>>>> ELSE <<>>,
        expiresAt |-> ParseInt(market.settlementTime) * 1000])

\* `let status = 'active'; if (feed.isLocked) status = 'paused';
\*  if (expiration > 0 && expiration < Date.now() / 1000) status = 'expired'`
FeedStatus(isLocked, expiration, nowMs) ==
  LET afterLock == IF isLocked THEN "paused" ELSE "active"
  IN IF expiration > 0 /\ expiration * 1000 < nowMs THEN "expired" ELSE afterLock

\* SwitchboardAdapter.normalize
SwitchboardNormalize(decoded, account, nowMs) ==
  LET feed == decoded.data
      probability == Clamp01(feed.latestConfirmedRound.result)
      expiration == ParseInt(feed.expiration)
  IN NormalizeMarket(
       [id |-> account.address,
        programId |-> account.programId,
        address |-> account.address,
        category |-> "oracle",
        status |-> FeedStatus(feed.isLocked, expiration, nowMs),
        outcomes |->
          <<NormalizeOutcome([id |-> <<account.address, "yes">>,
                              probability |-> probability, volume |-> ToDecimalString(<<0>>)]),
            NormalizeOutcome([id |-> <<account.address, "no">>,
                              probability |-> Complement(probability),
                              volume |-> ToDecimalString(<<0>>)])>>,
        winningOutcome |-> <<>>,
        expiresAt |-> expiration * 1000])

(***************************************************************************)
(* Decoding, normalizing and processing one account                        *)
(***************************************************************************)
NoInput ==
  [data |-> <<>>, programId |-> "", address |-> "", slot |-> 0, path |-> "none",
   decoder |-> "", decoders |-> <<>>]

NoOutput ==
  [dec |-> <<>>, val |-> <<>>, multi |-> <<>>, multiVal |-> <<>>, field |-> <<>>,
   market |-> <<>>]

NoCall == [called |-> FALSE]

\* the parimutuel accounts and the feeds the chain may hold
HxroAccounts ==
  {[status |-> st, pools |-> pt[1], total |-> pt[2], winning |-> w, fee |-> 0]:
     st \in {0, 1, 2, 3, 7},
     pt \in {<<<<100, 300>>, 400>>, <<<<0, 0>>, 0>>, <<<<300, 100>>, 200>>,
             <<<<7>>, 7>>, <<<<>>, 0>>},
     w \in {255, 0, 5}}

FeedAccounts ==
  {[isLocked |-> l, expiration |-> e, result |-> r]:
     l \in BOOLEAN, e \in {0, 1, 5},
     r \in {"zero", "half", "one", "onehalf", "minushalf", "nan"}}

\* Date.now() at the moments the model looks at
NowChoices == {0, 1500, 6000}

\* the adapters of the registry: their program id and, in registration order,
\* their decoders
AdapterDecoders(programId) ==
  IF programId = "hxro" THEN <<"ParimutuelMarket">>
  ELSE IF programId = "switchboard" THEN <<"AggregatorAccount">>
  ELSE <<>>

HasAdapter(programId) == programId \in {"hxro", "switchboard"}

\* adapter.normalize
AdapterNormalize(programId, decoded, account, nowMs) ==
  IF programId = "hxro" THEN HxroNormalize(decoded, account)
  ELSE SwitchboardNormalize(decoded, account, nowMs)

\* time passes
ClockAdvance(t) ==
  /\ t > acNowMs
  /\ acNowMs' = t
  /\ UNCHANGED <<acInput, acOutput, acEvents, acLog>>
  /\ UNCHANGED acOthers

\* a buffer reaches an ordered list of decoders, the first of which is also
\* called on its own: an account of the chain, whole or cut short
NewBuffer(bytes, len, decoders) ==
  /\ acInput = NoInput
  /\ acInput' = [NoInput EXCEPT !.data = SubSeq(bytes, 1, len),
                                !.decoder = Head(decoders), !.decoders = decoders]
  /\ UNCHANGED <<acOutput, acNowMs, acEvents, acLog>>
  /\ UNCHANGED acOthers

\* decoder.decode(data), called a first and a second time
DecodeCall ==
  /\ acInput.decoder # ""
  /\ Len(acOutput.dec) = Len(acOutput.val)
  /\ Len(acOutput.dec) < 2
  /\ acOutput' = [acOutput EXCEPT !.dec = Append(@, ManualDecode(acInput.decoder, acInput.data))]
  /\ UNCHANGED <<acInput, acNowMs, acEvents, acLog>>
  /\ UNCHANGED acOthers

\* decoder.validate(data)
ValidateCall ==
  /\ Len(acOutput.dec) = 1
  /\ acOutput.val = <<>>
  /\ acOutput' = [acOutput EXCEPT !.val = <<ManualValidate(acInput.decoder, acInput.data)>>]
  /\ UNCHANGED <<acInput, acNowMs, acEvents, acLog>>
  /\ UNCHANGED acOthers

\* decode(data) and validate(data) of a MultiAccountDecoder over the list
MultiCall ==
  /\ Len(acOutput.dec) = 2
  /\ acOutput.multi = <<>>
  /\ acOutput' = [acOutput EXCEPT
                    !.multi = <<MultiDecode(acInput.decoders, acInput.data)>>,
                    !.multiVal = <<MultiValidate(acInput.decoders, acInput.data)>>]
  /\ UNCHANGED <<acInput, acNowMs, acEvents, acLog>>
  /\ UNCHANGED acOthers

\* DecoderUtils.readStringWithLength(data, 0)
ReadFieldCall ==
  /\ acInput.decoder # ""
  /\ acOutput.multi # <<>>
  /\ acOutput.field = <<>>
  /\ acOutput' = [acOutput EXCEPT !.field = <<ReadStringWithLength(acInput.data, 0)>>]
  /\ UNCHANGED <<acInput, acNowMs, acEvents, acLog>>
  /\ UNCHANGED acOthers

\* an account of a program reaches its adapter
NewAccount(programId, bytes) ==
  /\ acInput = NoInput
  /\ acInput' = [NoInput EXCEPT !.data = bytes, !.programId = programId,
                                !.address = "m1", !.path = "normalize"]
  /\ UNCHANGED <<acOutput, acNowMs, acEvents, acLog>>
  /\ UNCHANGED acOthers

\* adapter.decodeAccount(accountData), then adapter.normalize(decoded, accountData)
NormalizeCall ==
  /\ acInput.path = "normalize"
  /\ acOutput.market = <<>>
  /\ LET decoded == MultiDecode(AdapterDecoders(acInput.programId), acInput.data)
     IN /\ decoded.ok
        /\ acOutput' = [acOutput EXCEPT
             !.multi = <<decoded>>,
             !.market = <<AdapterNormalize(acInput.programId, decoded, acInput, acNowMs)>>]
  /\ acLog' = [called |-> TRUE, nowMs |-> acNowMs]
  /\ UNCHANGED <<acInput, acNowMs, acEvents>>
  /\ UNCHANGED acOthers

\* the mutation: the initial sync reports the slot it was handed
DeliveredSlot(path, slot) == slot

\* accountData.slot: 0 in the batch loop of the initial sync, context.slot in
\* handleAccountUpdate
AccountSlot(path, slot) == IF path = "sync" THEN 0 ELSE slot

\* processAccount(accountData): no adapter, no event; else decode, normalize
\* and dispatch in a try block whose catch logs
ProcessAccountCall(path, programId, address, bytes, slot) ==
  /\ acInput.path \in {"none", "sync", "push"}
  /\ acInput.decoder = ""
  /\ Len(acEvents) < MaxAcEvents
  /\ LET account == [NoInput EXCEPT !.data = bytes, !.programId = programId,
                                    !.address = address, !.path = path,
                                    !.slot = AccountSlot(path, slot)]
         decoded == MultiDecode(AdapterDecoders(programId), bytes)
         normalized == AdapterNormalize(programId, decoded, account, acNowMs)
         dispatched == HasAdapter(programId) /\ decoded.ok /\ normalized.ok
     IN /\ acInput' = account
        /\ acOutput' = NoOutput
        /\ acLog' = [called |-> TRUE, nowMs |-> acNowMs, before |-> Len(acEvents),
                     delivered |-> slot]
        /\ acEvents' =
             IF dispatched
               THEN Append(acEvents, [type |-> "market_updated", timestamp |-> acNowMs,
                                      slot |-> account.slot, data |-> normalized.market])
               ELSE acEvents
  /\ UNCHANGED acNowMs
  /\ UNCHANGED acOthers

\* what the chain delivers to processAccount: accounts of the two adapters'
\* programs, whole or cut short, and an account of a program without adapter
ProcessInputs ==
  {[programId |-> "hxro", address |-> "hx1", data |-> HxroAccountBytes(a)]:
     a \in {h \in HxroAccounts:
              h.pools = <<100, 300>> /\ h.winning = 255 /\ h.status \in {0, 2}}}
  \cup {[programId |-> "switchboard", address |-> "sb1", data |-> FeedAccountBytes(f)]:
          f \in {g \in FeedAccounts: g.result = "half" /\ g.expiration \in {0, 1}}}
  \cup {[programId |-> "hxro", address |-> "hx1", data |-> Zeros(HxStatusOff)],
        [programId |-> "other", address |-> "ot1", data |-> Zeros(HxStatusOff)]}

\* the slot of the context of a pushed update
PushSlot == 7

AcInit ==
  /\ acInput = NoInput
  /\ acOutput = NoOutput
  /\ acNowMs = 0
  /\ acEvents = <<>>
  /\ acLog = NoCall

(***************************************************************************)
(* Trader: signals, trades and positions                                   *)
(***************************************************************************)
TradeSides == {"buy_yes", "buy_no"}
PositionKeys == TraderMarkets \X TradeSides
\* sizes of the signals handed to executeTrade directly
SignalSizes == {MinTradeSizeUsdc, 12}
\* how the quote, the swap transaction and the swap itself end
SwapOutcomes == {"noQuote", "confirmed", "txFailed"}

NoHeld == [key |-> <<"", "">>, size |-> 0, stale |-> FALSE]

\* edge.side === 'yes' ? 'buy_yes' : 'buy_no'; `${market.id}_buy_${position.side}`
BuySide(side) == IF side = "yes" THEN "buy_yes" ELSE "buy_no"

\* createTradeSignal: the size of the signal, 0 standing for null
CreateTradeSignal(side, recommendedSize) ==
  IF side = "none" \/ recommendedSize <= 0 THEN 0
  ELSE LET remainingExposure == MaxTotalExposureUsdc - trExposure
       IN IF remainingExposure <= 0 THEN 0
          ELSE LET wanted == IF trMethod = "fixed" THEN FixedPositionSizeUsdc
                                                   ELSE recommendedSize
                   sizeUsdc == IF wanted <= remainingExposure THEN wanted
                                                              ELSE remainingExposure
               IN IF sizeUsdc < MinTradeSizeUsdc THEN 0 ELSE sizeUsdc

\* (mutant of AutoTradeEnabled) the switch is ignored
AutoTradeForced == TRUE

\* this.config.trading.autoTradeEnabled
AutoTradeEnabled == trAuto

\* calls in progress and trades recorded stay within the bound
RoomForTrade ==
  Len(trTrades) + Cardinality({c \in TraderCallers: trPc[c] = "awaitTrade"}) < MaxTrades

\* executeTrade(signal) up to its first await: the paper trade when
\* auto-trading is off, the failure when there is no wallet
ExecuteBegin(c, key, size) ==
  IF ~AutoTradeEnabled
    THEN /\ trTrades' = Append(trTrades, [status |-> "cancelled", size |-> size])
         /\ UNCHANGED <<trPc, trHeld>>
  ELSE IF ~trWallet
    THEN /\ trTrades' = Append(trTrades, [status |-> "failed", size |-> size])
         /\ UNCHANGED <<trPc, trHeld>>
  ELSE /\ trPc' = [trPc EXCEPT ![c] = "awaitTrade"]
       /\ trHeld' = [trHeld EXCEPT ![c] = [key |-> key, size |-> size, stale |-> FALSE]]
       /\ UNCHANGED trTrades

\* one iteration of processEdges: the position check, createTradeSignal and
\* the start of executeTrade
ProcessEdge(c, market, side, recommendedSize) ==
  /\ trPc[c] = "idle"
  /\ RoomForTrade
  /\ UNCHANGED trOthers
  /\ LET size == CreateTradeSignal(side, recommendedSize)
     IN IF \/ trPositions[<<market, "buy_yes">>] > 0
           \/ trPositions[<<market, "buy_no">>] > 0
           \/ size = 0
          THEN UNCHANGED <<trTrades, trPc, trHeld>>
          ELSE ExecuteBegin(c, <<market, BuySide(side)>>, size)
  /\ UNCHANGED <<trAuto, trWallet, trMethod, trPositions, trExposure, trSwaps>>

\* executeTrade(signal) called with a signal the caller holds
ExecuteTrade(c, key, size) ==
  /\ trPc[c] = "idle"
  /\ RoomForTrade
  /\ UNCHANGED trOthers
  /\ ExecuteBegin(c, key, size)
  /\ UNCHANGED <<trAuto, trWallet, trMethod, trPositions, trExposure, trSwaps>>

\* the rest of executeTrade: no quote or no swap transaction fails the trade;
\* otherwise the swap is executed and, when it confirms, updatePosition adds
\* the size to the position and to totalExposure
ExecuteReturn(c, outcome) ==
  /\ trPc[c] = "awaitTrade"
  /\ UNCHANGED trOthers
  /\ LET key == trHeld[c].key
         size == trHeld[c].size
     IN /\ trSwaps' = (trSwaps \/ outcome # "noQuote")
        /\ IF outcome = "confirmed"
             THEN /\ trPositions' = [trPositions EXCEPT ![key] = @ + size]
                  /\ trExposure' = trExposure + size
                  /\ trTrades' = Append(trTrades, [status |-> "confirmed", size |-> size])
             ELSE /\ trTrades' = Append(trTrades, [status |-> "failed", size |-> size])
                  /\ UNCHANGED <<trPositions, trExposure>>
  /\ trPc' = [trPc EXCEPT ![c] = "idle"]
  /\ trHeld' = [trHeld EXCEPT ![c] = NoHeld]
  /\ UNCHANGED <<trAuto, trWallet, trMethod>>

\* closePosition(position), for a position taken from the map, up to its
\* first await
CloseBegin(c, key) ==
  /\ trPc[c] = "idle"
  /\ trPositions[key] > 0
  /\ UNCHANGED trOthers
  /\ IF ~AutoTradeEnabled \/ ~trWallet
       THEN UNCHANGED <<trPc, trHeld>>
       ELSE /\ trPc' = [trPc EXCEPT ![c] = "awaitClose"]
            /\ trHeld' = [trHeld EXCEPT ![c] = [key |-> key, size |-> 0, stale |-> FALSE]]
  /\ UNCHANGED <<trAuto, trWallet, trMethod, trPositions, trExposure, trTrades, trSwaps>>

\* the rest of closePosition: when the swap confirms, positions.delete(key) and
\* totalExposure -= position.totalCost, position being the object the caller
\* passed, whether or not the map still holds it
CloseReturn(c, outcome) ==
  /\ trPc[c] = "awaitClose"
  /\ UNCHANGED trOthers
  /\ LET key == trHeld[c].key
         cost == IF trHeld[c].stale THEN trHeld[c].size ELSE trPositions[key]
     IN /\ trSwaps' = (trSwaps \/ outcome # "noQuote")
        /\ IF outcome = "confirmed"
             THEN /\ trPositions' = [trPositions EXCEPT ![key] = 0]
                  /\ trExposure' = trExposure - cost
                  /\ trHeld' = [d \in TraderCallers |->
                       IF d = c THEN NoHeld
                       ELSE IF trPc[d] = "awaitClose" /\ trHeld[d].key = key
                               /\ ~trHeld[d].stale
                         THEN [key |-> key, size |-> cost, stale |-> TRUE]
                         ELSE trHeld[d]]
             ELSE /\ trHeld' = [trHeld EXCEPT ![c] = NoHeld]
                  /\ UNCHANGED <<trPositions, trExposure>>
  /\ trPc' = [trPc EXCEPT ![c] = "idle"]
  /\ UNCHANGED <<trAuto, trWallet, trMethod, trTrades>>

\* the state after `new Trader()`, and initialize() when it succeeds
TrInit(autoChoices, walletChoices, methods) ==
  /\ trAuto \in autoChoices
  /\ trWallet \in walletChoices
  /\ trMethod \in methods
  /\ trPositions = [k \in PositionKeys |-> 0]
  /\ trExposure = 0
  /\ trTrades = <<>>
  /\ trPc = [c \in TraderCallers |-> "idle"]
  /\ trHeld = [c \in TraderCallers |-> NoHeld]
  /\ trSwaps = FALSE

\* the trader as the README configures it, never called
TrIdle == TrInit({FALSE}, {FALSE}, {"kelly"})

TraderNext ==
  \/ \E c \in TraderCallers, m \in TraderMarkets, side \in EdgeSides,
        r \in RecommendedSizes: ProcessEdge(c, m, side, r)
  \/ \E c \in TraderCallers, k \in PositionKeys, size \in SignalSizes:
        ExecuteTrade(c, k, size)
  \/ \E c \in TraderCallers, outcome \in SwapOutcomes: ExecuteReturn(c, outcome)
  \/ \E c \in TraderCallers, k \in PositionKeys: CloseBegin(c, k)
  \/ \E c \in TraderCallers, outcome \in SwapOutcomes: CloseReturn(c, outcome)

(***************************************************************************)
(* Properties of the EventDispatcher                                       *)
(***************************************************************************)
NoDrainInFlight == \A p \in Producers: dpc[p] = "idle"

ReplayIds == [i \in 1..Len(replayBuffer) |-> replayBuffer[i].event.id]

\* C1: every handler is invoked with the events in the order in which they
\* were enqueued: for any two invocations of one handler, the earlier one
\* carries the event that was pushed on the queue first.
C1_HandlersSeeEnqueueOrder ==
  \A h \in HandlerIds:
    \A i, j \in 1..Len(invoked[h]):
      i < j => PosIn(enqueued, invoked[h][i]) < PosIn(enqueued, invoked[h][j])

\* C1 witness: both producers have dispatched, one of them while the other
\* was draining, and both handlers were invoked with several events.
C1_Witness ==
  /\ Len(invoked["h1"]) >= 2
  /\ Len(invoked["g1"]) >= 3
  /\ \E p \in Producers: dpc[p] = "awaitEvent"

\* C2: at most one drain loop (a processQueue call past its guard) is active.
C2_AtMostOneDrain ==
  Cardinality({p \in Producers: dpc[p] = "awaitEvent"}) <= 1

\* C2 witness: a dispatch() made while a handler of the draining call is
\* still running has only enqueued its event.
C2_Witness ==
  \E p \in Producers:
    /\ dpc[p] = "awaitEvent"
    /\ dpending[p] # {}
    /\ Len(processingQueue) > 0
    /\ \A q \in Producers \ {p}: dpc[q] = "idle"

\* C3: a failing handler is isolated: the failure never reaches the drain
\* loop or dispatch(), every handler registered for the event being processed
\* has been invoked with it, and when no drain is in flight every enqueued
\* event has been taken from the queue and processed.
C3_HandlerFailureIsolated ==
  /\ ~thrown
  /\ \A p \in Producers:
       dpc[p] = "awaitEvent" =>
         \A h \in dsnap[p]: SeqContains(invoked[h], dcur[p].id)
  /\ NoDrainInFlight => (processingQueue = <<>> /\ dequeued = enqueued)

\* C3 witness: a handler failed on the first event, its sibling was invoked
\* with that event all the same, and the later events were processed too.
C3_Witness ==
  /\ firstFailed = 1
  /\ SeqContains(invoked["h1"], 1)
  /\ SeqContains(invoked["g1"], 1)
  /\ SeqContains(invoked["g1"], MaxEvents)
  /\ NoDrainInFlight

C22_OnceRunsAtMostOnce ==
  \A o \in OnceIds:
    /\ Len(invoked[o]) <= 1
    /\ (Len(invoked[o]) = 1 /\ \A p \in Producers: o \notin dpending[p])
         => ~SeqContains(handlers[onceType[o]], o)

\* C26: an event is taken from the queue only when no handler invocation of
\* an earlier event is still running, so the handler executions of two
\* different events never overlap.
C26_EventsDoNotOverlap ==
  [][dequeued' # dequeued => \A p \in Producers: dpending[p] = {}]_vars

\* C26 witness: a second event is being processed, one of its handlers has
\* settled while the other is still running, and a third event waits.
C26_Witness ==
  \E p \in Producers:
    /\ Len(dequeued) >= 2
    /\ dpending[p] # {}
    /\ dpending[p] # dsnap[p]
    /\ Len(processingQueue) > 0

\* C27: no event is stranded: whenever the processing queue holds an event,
\* a drain loop is in flight to deliver it, also after a handler or an
\* EventEmitter listener has failed.
C27_NoEventStranded ==
  Len(processingQueue) > 0 => \E p \in Producers: dpc[p] = "awaitEvent"

\* C28: when a dispatch(e) call returns, e has been delivered: a call that
\* returns in the step that enqueues e (it did not become the draining call)
\* leaves e taken from the queue and handed to its handlers.
C28_DispatchReturnsAfterDelivery ==
  [][(Len(enqueued') > Len(enqueued) /\ dpc' = dpc)
       => SeqContains(dequeued', enqueued'[Len(enqueued')])]_vars

\* C31: the handlers invoked with an event are exactly the handlers of its
\* type plus the global handlers registered when the event is taken from the
\* queue; registering or removing a handler at any other moment changes
\* nobody's invocations.
C31_HandlersOfTheDequeueMoment ==
  [][IF dequeued' # dequeued
       THEN \A p \in Producers:
              dcur'[p].id = dequeued'[Len(dequeued')] =>
                \A h \in HandlerIds:
                  invoked'[h] =
                    IF h \in SeqToSet(handlers[dcur'[p].type]) \cup SeqToSet(globalHandlers)
                      THEN Append(invoked[h], dcur'[p].id)
                      ELSE invoked[h]
       ELSE invoked' = invoked]_vars

\* C31 witness: the global handler received the first and the third event but
\* not the second, which the type handler received: it was removed before the
\* second event was taken from the queue and registered again afterwards.
C31_Witness ==
  /\ invoked["g1"] = <<1, 3>>
  /\ SeqContains(invoked["h1"], 2)

\* C35: waitForIdle() resolves only in a state where the queue is empty and
\* no drain is in flight, and a call that is polling does resolve once the
\* dispatch() calls have stopped and every handler invocation settles.
C35_WaitForIdleResolves ==
  /\ [][(wpc # "resolved" /\ wpc' = "resolved") =>
         (Len(processingQueue) = 0 /\ ~isProcessing)]_vars
  /\ (wpc = "polling") ~> (wpc = "resolved")

\* the events of the buffer replayTo was called on that pass its filters
ReplayExpected ==
  LET Matches(item) ==
        /\ (rtArgs.type = "" \/ item.event.type = rtArgs.type)
        /\ (rtArgs.since = 0 \/ item.event.timestamp >= rtArgs.since)
      kept == SelectSeq(rtBuffer, Matches)
  IN [i \in 1..Len(kept) |-> kept[i].event.id]

\* C36: replayTo invokes the handler with the events that were in the replay
\* buffer at the call and match the type and since filters, once each and in
\* buffer order, one invocation at a time; when it returns every one of them
\* has been invoked, whether or not an invocation failed.
C36_ReplayInBufferOrder ==
  /\ Len(rtCalls) <= Len(ReplayExpected)
  /\ \A i \in 1..Len(rtCalls): rtCalls[i] = ReplayExpected[i]
  /\ Len(rtCalls) - rtSettled = (IF rtpc = "awaitHandler" THEN 1 ELSE 0)
  /\ rtpc = "done" => rtCalls = ReplayExpected

\* a replay has returned after two invocations, the first of which failed,
\* while the buffer has changed since the call
C36_Witness ==
  /\ rtpc = "done"
  /\ Len(rtCalls) = 2
  /\ rtCalls[1] \in rtFailed
  /\ replayBuffer # rtBuffer

\* C34: no event of the 'replay' message a WebSocket client was sent when it
\* connected is also sent to that client as a live 'event' message.
C34_NoEventTwice ==
  \A c \in wsClients:
    \A i \in 1..Len(apReplay[c]): ~SeqContains(LiveEvents(c), apReplay[c][i])

(***************************************************************************)
(* Properties of the MarketIndexer                                         *)
(***************************************************************************)
IndexerListeners == {l \in wsListeners: l.cb = "indexer"}

\* C5: once stop() has returned, and until start() is called again, the poll
\* timer is cancelled and no program subscription of the indexer is open on
\* the connection (runs in which the connection refused to remove a listener
\* are left aside).
C5_StopLeavesNothingOpen ==
  (stopQuiet /\ ~removeFailed) => (~ixPollTimer /\ IndexerListeners = {})

\* C6: a failing account is dropped alone: when initialSync leaves a program
\* every fetched account has been processed, in every batch that settled all
\* its accounts were processed, and every account or push that decoded and
\* normalized was dispatched.
C6_AccountFailuresIsolated ==
  /\ \A s \in Starters:
       /\ sleft[s].settled = sleft[s].n
       /\ sleft[s].dispatched = sleft[s].ok
       /\ sstat[s].dispatched = sstat[s].ok
       /\ (spc[s] = "awaitBatch" /\ srunning[s] = {}) =>
            sstat[s].settled = Min({sn[s], sbatch[s] + BatchSize - 1})
  /\ pushStat.dispatched = pushStat.ok

\* C6 witness: the first account of a program with two batches failed, the
\* others were dispatched; the first push failed, a later one was dispatched.
C6_Witness ==
  /\ sleft["s1"].n = MaxAccounts
  /\ sleft["s1"].firstBad = 1
  /\ sleft["s1"].dispatched = MaxAccounts - 1
  /\ pushStat.firstBad = 1
  /\ pushStat.dispatched >= 1

C21_NoUpdateMissed ==
  \A v \in 1..MaxChanges:
    [](chainVer >= v => <>(\E w \in gapSeen: w >= v))

\* C30: start() is a no-op while the indexer is running: a start() call made
\* while isRunning is set changes neither the start() call in progress, the
\* subscriptions nor the poll timer, so that at most one start() call runs
\* the initial sync and the indexer holds at most one subscription per
\* program id.
C30_StartIsNoOpWhileRunning ==
  [][/\ \A s \in Starters:
          (s \in scalled' \ scalled /\ ixRunning) =>
            UNCHANGED <<ixRunning, ixPollTimer, ixSubs, spc, sprog, sn, sbatch,
                        srunning, spendId, wsVars>>
     /\ Cardinality({s \in Starters: spc'[s] # "idle"}) <= 1
     /\ \A k \in ProgramKeys:
          Cardinality({l \in IndexerListeners': l.key = k}) <= 1]_vars

\* C30 witness: both start() calls have been made, the second while the
\* first was still starting; the first one is subscribing, and the
\* indexer holds one subscription for the first program.
C30_Witness ==
  /\ scalled = Starters
  /\ ixRunning
  /\ \E s \in Starters: spc[s] = "awaitSubscribe" /\ sprog[s] = 2
  /\ Cardinality({l \in IndexerListeners: l.key = ProgramIds[1]}) = 1

\* C37: during the initial synchronization the batches of one program run one
\* after the other: the calls in flight are calls of the batch in hand, at most
\* batchSize of them, and the calls of the next batch start only after every
\* call of the batch in hand has settled.
C37_BatchesOneAtATime ==
  /\ [](\A s \in Starters:
          spc[s] = "awaitBatch" =>
            /\ Cardinality(srunning[s]) <= BatchSize
            /\ \A i \in srunning[s]:
                 i >= sbatch[s] /\ i < sbatch[s] + BatchSize /\ i <= sn[s])
  /\ [][\A s \in Starters:
          (spc[s] = "awaitBatch" /\ spc'[s] = "awaitBatch" /\ sbatch'[s] # sbatch[s]) =>
            /\ srunning[s] = {}
            /\ sstat[s].settled = sbatch[s] + BatchSize - 1
            /\ sbatch'[s] = sbatch[s] + BatchSize]_vars

\* the second batch of a program is in flight after the whole first batch settled
C37_Witness ==
  /\ spc["s1"] = "awaitBatch"
  /\ sbatch["s1"] = 1 + BatchSize
  /\ srunning["s1"] # {}
  /\ sstat["s1"].settled = BatchSize

(***************************************************************************)
(* Properties of the SolanaRpcClient                                       *)
(***************************************************************************)
\* invocation i of call c was made against endpoint ep and rejected with an
\* error shouldFailover accepts
RetryableFailureOn(c, i, ep) ==
  /\ cinv[c][i].ep = ep
  /\ IsError(cinv[c][i].out)
  /\ ShouldFailover(cinv[c][i].out)

C8_NonRetryablePropagatesAtOnce ==
  (Len(cinv["c1"]) >= 1 /\ IsError(cinv["c1"][1].out)
     /\ ~ShouldFailover(cinv["c1"][1].out)) =>
    /\ Len(cinv["c1"]) = 1
    /\ advances = <<>>
    /\ cslept["c1"] = <<>>
    /\ cresult["c1"] = "error"

\* C9: the index advances at most once for the failures of operations that
\* were invoked against the same endpoint before it advanced
C9_OneAdvancePerEndpointFailure ==
  \A i, j \in 1..Len(advances):
    advances[i].epoch = advances[j].epoch => i = j

\* C29: a failover whose probe fails does not switch endpoints: when the
\* probe rejects, the endpoint index and the connection are the ones the
\* client had before failover() was called.
C29_FailedFailoverKeepsEndpoint ==
  [][\A c \in Callers:
       (cpc[c] = "awaitProbe" /\ cpc'[c] \in {"sleep", "done"}) =>
         /\ rpcIndex' = advances[Len(advances)].from
         /\ rpcConn' = advances[Len(advances)].from]_vars

\* C33: executeWithRetry makes at most 3 attempts, each invoking the
\* operation once and at most once more after a failover; it returns as soon
\* as an invocation succeeds and throws only when the last attempt has
\* failed; and once called it terminates.
C33_Bounded ==
  LET inv == cinv["c1"]
  IN /\ cattempt["c1"] <= MaxAttempts
     /\ Cardinality({i \in 1..Len(inv): inv[i].first}) = cattempt["c1"]
     /\ \A i \in 1..Len(inv): ~inv[i].first => (i > 1 /\ inv[i - 1].first)
     /\ \A i \in 1..(Len(inv) - 1): IsError(inv[i].out)
     /\ cresult["c1"] = "ok" => (Len(inv) >= 1 /\ inv[Len(inv)].out = "ok")
     /\ cresult["c1"] = "error" =>
          /\ cattempt["c1"] = MaxAttempts
          /\ \A i \in 1..Len(inv): IsError(inv[i].out)

C10_ReconnectKeepsSubscriptions ==
  rcpc = "done" =>
    \A sub \in rcBefore:
      sub \in wsListeners =>
        \E l \in rcAfter:
          l.kind = sub.kind /\ l.key = sub.key /\ l.cb = sub.cb

\* C11: one handleReconnect() run makes at most 10 probes, sleeps
\* min(1000 * 2^(n-1), 30000) ms before the n-th, has thrown once they have all
\* failed, and leaves reconnectAttempts at 0 when a probe succeeded
C11_ReconnectLoopBounded ==
  /\ rcProbes <= 10
  /\ Len(rcDelays) <= 10
  /\ rcProbes <= Len(rcDelays)
  /\ \A n \in 1..Len(rcDelays):
       rcDelays[n] = Min({1000 * Pow2(n - 1), 30000})
  /\ (rcProbes = 10 /\ rcpc \notin {"awaitProbe", "awaitResub", "done"}) =>
       rcpc = "failed"
  /\ rcpc = "failed" => ~isReconnecting
  /\ rcpc = "done" => (reconnectAttempts = 0 /\ ~isReconnecting)

C11_Witness ==
  /\ rcpc = "failed"
  /\ rcProbes = 10
  /\ rcDelays[5] = 16000 /\ rcDelays[6] = 30000 /\ rcDelays[10] = 30000

\* C32: every listener registered on the connection and not yet removed is
\* the one the manager tracks under its key, in the account map or in the
\* program map.
C32_ListenersAreTracked ==
  \A l \in wsListeners: TrackedId(l.kind, l.key) = l.id

(***************************************************************************)
(* Properties of the processing pipeline                                   *)
(***************************************************************************)
ValidTransition(from, to) ==
  \/ from = "active" /\ to \in {"paused", "expired", "settled", "cancelled"}
  \/ from = "paused" /\ to \in {"active", "cancelled", "expired"}
  \/ from = "expired" /\ to \in {"settled", "cancelled"}

\* C12: for every market id, two consecutive market_updated events that carry
\* different statuses follow the transition graph, and no event after a
\* settled or cancelled one carries a different status
C12_StatusesFollowTheGraph ==
  \A i, j \in 1..Len(acEvents):
    LET from == acEvents[i].data
        to == acEvents[j].data
        consecutive == \A k \in (i + 1)..(j - 1): acEvents[k].data.id # from.id
    IN (i < j /\ from.id = to.id /\ from.status # to.status)
         => (/\ from.status \notin {"settled", "cancelled"}
             /\ (consecutive => ValidTransition(from.status, to.status)))

\* the last normalized market and the decoded account it was made from
Normalized == acOutput.market[1].market
DecodedOf == acOutput.multi[1].data

\* C13: a decoded feed with isLocked = true normalizes to status paused,
\* whatever its expiration is
C13_LockedFeedIsPaused ==
  (/\ acOutput.market # <<>>
   /\ acInput.programId = "switchboard"
   /\ DecodedOf.isLocked)
  => Normalized.status = "paused"

\* a parimutuel market with at least one outcome has been normalized
HxroNormalized ==
  /\ acOutput.market # <<>>
  /\ acInput.programId = "hxro"
  /\ Len(DecodedOf.outcomes) >= 1

PoolOf(j) == BigIntOf(DecodedOf.outcomes[j].pool)
TotalPoolOf == BigIntOf(DecodedOf.totalPool)

\* C14 as stated: outcome i gets probability pool_i / totalPool when
\* totalPool > 0 and 1/N when totalPool = 0
C14_ProbabilityIsPoolShare ==
  HxroNormalized =>
    \A j \in 1..Len(DecodedOf.outcomes):
      Normalized.outcomes[j].probability =
        IF TotalPoolOf > 0 THEN Ratio(PoolOf(j), TotalPoolOf)
        ELSE Ratio(1, Len(DecodedOf.outcomes))

\* C14: outcome i gets probability pool_i / totalPool, and 1 when that
\* quotient exceeds 1, when totalPool > 0; 1/N when totalPool = 0; pools
\* [100, 300] with total 400 give [1/4, 3/4], two outcomes with total pool 0
\* get 1/2 each
C14_ProbabilityIsClampedPoolShare ==
  HxroNormalized =>
    /\ \A j \in 1..Len(DecodedOf.outcomes):
         Normalized.outcomes[j].probability =
           IF TotalPoolOf = 0 THEN <<1, Len(DecodedOf.outcomes)>>
           ELSE IF PoolOf(j) >= TotalPoolOf THEN <<1, 1>>
           ELSE Ratio(PoolOf(j), TotalPoolOf)
    /\ (Len(DecodedOf.outcomes) = 2 /\ PoolOf(1) = 100 /\ PoolOf(2) = 300
          /\ TotalPoolOf = 400)
         => (/\ Normalized.outcomes[1].probability = <<1, 4>>
             /\ Normalized.outcomes[2].probability = <<3, 4>>)
    /\ (Len(DecodedOf.outcomes) = 2 /\ TotalPoolOf = 0)
         => (/\ Normalized.outcomes[1].probability = <<1, 2>>
             /\ Normalized.outcomes[2].probability = <<1, 2>>)

\* 0 <= x <= 1 (false for NaN)
InUnitRange(x) == ~IsNaN(x) /\ ~Less(x, <<0, 1>>) /\ ~Less(<<1, 1>>, x)

FeedResult == DecodedOf.latestConfirmedRound.result

C14_Witness ==
  /\ HxroNormalized
  /\ Len(DecodedOf.outcomes) = 2
  /\ PoolOf(1) = 300 /\ PoolOf(2) = 100 /\ TotalPoolOf = 200
  /\ Normalized.outcomes[1].probability = <<1, 1>>
  /\ Normalized.outcomes[2].probability = <<1, 2>>

\* the last processAccount call had an adapter, and its account decodes and
\* normalizes
ProcessSucceeds ==
  /\ acInput.programId \in {"hxro", "switchboard"}
  /\ ManualValidate(Head(AdapterDecoders(acInput.programId)), acInput.data)
  /\ acInput.address # ""

\* C19: a processAccount call with an adapter whose decode and normalize
\* succeed dispatches exactly one event, of type market_updated, with the
\* normalized market as data and the slot of the account: the delivered slot
\* for a push, 0 for the initial sync; any other call dispatches nothing
C19_OneEventPerProcessedAccount ==
  (acLog.called /\ acInput.path \in {"sync", "push"}) =>
    IF ProcessSucceeds
      THEN /\ Len(acEvents) = acLog.before + 1
           /\ LET event == acEvents[Len(acEvents)]
                  decoded == ManualDecode(Head(AdapterDecoders(acInput.programId)), acInput.data)
              IN /\ event.type = "market_updated"
                 /\ event.data =
                      AdapterNormalize(acInput.programId, decoded, acInput, acLog.nowMs).market
                 /\ event.data.address = acInput.address
                 /\ event.slot = IF acInput.path = "push" THEN acLog.delivered ELSE 0
      ELSE Len(acEvents) = acLog.before

\* a pushed update and an account of the initial sync have both been
\* processed into events
C19_Witness ==
  /\ Len(acEvents) = 2
  /\ acEvents[1].slot = PushSlot
  /\ acEvents[2].slot = 0
  /\ acEvents[2].type = "market_updated"
  /\ acInput.path = "sync"
  /\ ProcessSucceeds

\* C38: a normalized parimutuel market has the status the table gives for the
\* decoded state code (0 active, 1 paused, 2 settled, 3 cancelled, any other
\* code active), and it has a winning outcome exactly when the decoded
\* winning-outcome byte is not 255.
C38_StatusTableAndWinner ==
  (acOutput.market # <<>> /\ acInput.programId = "hxro" /\ acOutput.market[1].ok) =>
    /\ Normalized.status =
         (IF DecodedOf.marketStatus = 1 THEN "paused"
          ELSE IF DecodedOf.marketStatus = 2 THEN "settled"
          ELSE IF DecodedOf.marketStatus = 3 THEN "cancelled"
          ELSE "active")
    /\ (Normalized.winningOutcome # <<>>) <=> (DecodedOf.winningOutcome # 255)

\* a settled market with winning byte 0 has been normalized
C38_Witness ==
  /\ HxroNormalized
  /\ acOutput.market[1].ok
  /\ DecodedOf.marketStatus = 2
  /\ Normalized.status = "settled"
  /\ DecodedOf.winningOutcome = 0
  /\ Normalized.winningOutcome = <<<<acInput.address, 0>>>>

\* C39: the winning outcome of a normalized parimutuel market, when it has
\* one, is the id of one of the outcomes of that market.
C39_WinnerIsAnOutcome ==
  (/\ acOutput.market # <<>>
   /\ acInput.programId = "hxro"
   /\ acOutput.market[1].ok
   /\ Normalized.winningOutcome # <<>>)
  => \E j \in 1..Len(Normalized.outcomes):
       Normalized.outcomes[j].id = Normalized.winningOutcome[1]

(***************************************************************************)
(* Properties of the decoders                                              *)
(***************************************************************************)
\* the decoders of the list that accept the buffer at hand, by position
Validating ==
  {k \in 1..Len(acInput.decoders): ManualValidate(acInput.decoders[k], acInput.data)}

\* C15: a multi-decoder returns the decode result of the first decoder, in
\* list order, whose validate succeeds, and fails when no decoder validates
C15_FirstValidatingDecoderWins ==
  acOutput.multi # <<>> =>
    IF Validating = {} THEN ~acOutput.multi[1].ok
    ELSE /\ acOutput.multi[1].ok
         /\ acOutput.multi[1] =
              ManualDecode(acInput.decoders[Min(Validating)], acInput.data)

\* with [A, B] only B validates, and the result is B's
C15_Witness ==
  /\ acInput.decoders = <<"ParimutuelMarket", "AggregatorAccount">>
  /\ Validating = {2}
  /\ acOutput.multi # <<>>
  /\ acOutput.multi[1].ok
  /\ acOutput.multi[1].type = "AggregatorAccount"

C17_ValidateNeverThrows ==
  /\ acOutput.val # <<>> =>
       (acOutput.val[1] \in BOOLEAN /\ acOutput.val[1] = acOutput.dec[1].ok)
  /\ acOutput.multiVal # <<>> =>
       (acOutput.multiVal[1] \in BOOLEAN /\ acOutput.multiVal[1] = acOutput.multi[1].ok)

\* validate has returned false on the empty buffer and on a truncated one
C17_Witness ==
  /\ acOutput.val = <<FALSE>>
  /\ acOutput.multiVal = <<FALSE>>
  /\ Len(acInput.data) \in {0, HxStatusOff}

\* the length the layout of a decoder declares for the buffer at hand
DeclaredLength ==
  IF acInput.decoder = "AggregatorAccount" THEN Len(FeedAccountBytes(CHOOSE f \in FeedAccounts: TRUE))
  ELSE IF Len(acInput.data) < HxOutcomesOff THEN HxOutcomesOff + HxTrailerSize
  ELSE HxOutcomesOff + HxOutcomeSize * acInput.data[HxStatusOff + 2] + HxTrailerSize

\* C18: decode fails on every buffer shorter than the declared layout, and a
\* length-prefixed field whose declared length overruns the buffer fails
C18_ShortBuffersFail ==
  /\ (acOutput.dec # <<>> /\ Len(acInput.data) < DeclaredLength) => ~acOutput.dec[1].ok
  /\ (/\ acOutput.field # <<>>
      /\ InRange(acInput.data, 0, 4)
      /\ 4 + ReadLE(acInput.data, 0, 4) > Len(acInput.data))
     => ~acOutput.field[1].ok

(***************************************************************************)
(* Properties of the Trader                                                *)
(***************************************************************************)
\* C24: after any sequence of processEdges, executeTrade and closePosition
\* calls, totalExposure is at most maxTotalExposureUsdc.
C24_ExposureWithinLimit ==
  trExposure <= MaxTotalExposureUsdc

\* C25: with auto-trading off no swap transaction is handed to executeSwap,
\* every trade recorded is cancelled, and the positions map stays empty and
\* totalExposure 0.
C25_NoTradeWhenAutoTradeOff ==
  ~trAuto =>
    /\ ~trSwaps
    /\ \A i \in 1..Len(trTrades): trTrades[i].status = "cancelled"
    /\ \A k \in PositionKeys: trPositions[k] = 0
    /\ trExposure = 0
    /\ \A c \in TraderCallers: trPc[c] = "idle"

\* C25 witness: with auto-trading off and a wallet, processEdges and
\* executeTrade have recorded as many paper trades as the run allows.
C25_Witness ==
  /\ ~trAuto
  /\ trWallet
  /\ Len(trTrades) = MaxTrades
  /\ \A i \in 1..Len(trTrades): trTrades[i].status = "cancelled"

\* C40: at most one trading cycle of the bot is in its body at any time.
C40_OneCycleAtATime ==
  Cardinality({c \in BotCallers: bpc[c] = "body"}) <= 1

(***************************************************************************)
(* Specifications                                                          *)
(***************************************************************************)
\* the default configuration: { enabled: true, maxSize }, no ttlMs
InitDispatcher == DispInit({TRUE}, {0}) /\ WsInit /\ IxInit /\ RpcInit /\ WrInit /\ AcInit /\ TrIdle /\ ExIdle

InitReplay == DispInit(BOOLEAN, TtlChoices) /\ WsInit /\ IxInit /\ RpcInit /\ WrInit /\ AcInit /\ TrIdle /\ ExIdle

InitIndexer == DispInit({TRUE}, {0}) /\ WsInit /\ IxInit /\ RpcInit /\ WrInit /\ AcInit /\ TrIdle /\ ExIdle

SpecDispatcher == InitDispatcher /\ [][DispNext]_vars

SpecReplay == InitReplay /\ [][ReplayNext]_vars

\* dispatches while handlers are registered with once() and onAll()
OnceNext ==
  \/ \E p \in Producers, type \in EventTypes: Dispatch(p, type)
  \/ \E p \in Producers, h \in AllHandlerIds, ok \in BOOLEAN: HandlerSettle(p, h, ok)
  \/ \E p \in Producers: DrainContinue(p)
  \/ \E type \in EventTypes, o \in OnceIds: Once(type, o)
  \/ \E h \in GlobalHandlerIds: OnAll(h)

SpecOnce == InitDispatcher /\ [][OnceNext]_vars

\* dispatches while listeners are added with addListener() next to the handlers
EmitNext ==
  \/ \E p \in Producers, type \in EventTypes: Dispatch(p, type)
  \/ \E p \in Producers, h \in HandlerIds, ok \in BOOLEAN: HandlerSettle(p, h, ok)
  \/ \E p \in Producers: DrainContinue(p)
  \/ \E p \in Producers: EmitThrows(p)
  \/ \E name \in EmitNames: AddListener(name)
  \/ \E h \in GlobalHandlerIds: OnAll(h)

SpecEmit == InitDispatcher /\ [][EmitNext]_vars

\* waitForIdle() next to dispatches of one event type, a handler for all
\* events and a listener added with addListener('*')
IdleNext ==
  \/ \E p \in Producers: Dispatch(p, "market_updated")
  \/ \E p \in Producers, ok \in BOOLEAN: HandlerSettle(p, "g1", ok)
  \/ \E p \in Producers: DrainContinue(p)
  \/ \E p \in Producers: EmitThrows(p)
  \/ AddListener("*")
  \/ OnAll("g1")
  \/ WaitForIdle
  \/ WaitPoll

\* every handler invocation settles, the drain resumes when they have, and the
\* timer of waitForIdle fires
IdleFairness ==
  /\ WF_vars(\E p \in Producers, ok \in BOOLEAN: HandlerSettle(p, "g1", ok))
  /\ WF_vars(\E p \in Producers: DrainContinue(p) \/ EmitThrows(p))
  /\ WF_vars(WaitPoll)

SpecIdle == InitDispatcher /\ [][IdleNext]_vars /\ IdleFairness

\* the values of `eventType` ("": not given) and of `since` (0: not given)
ReplayTypes == {"", "market_updated"}
SinceChoices == 0..MaxClock

\* replayTo() while events are dispatched and the buffer is cleared
ReplayToNext ==
  \/ \E type \in EventTypes: Dispatch("p1", type)
  \/ DrainContinue("p1")
  \/ ClearReplayBuffer
  \/ Tick
  \/ \E type \in ReplayTypes, since \in SinceChoices: ReplayTo(type, since)
  \/ \E ok \in BOOLEAN: ReplaySettle(ok)

SpecReplayTo == InitDispatcher /\ [][ReplayToNext]_vars

\* a WebSocket client connects while events are dispatched to broadcastEvent
\* and to one more handler
ApiNext ==
  \/ \E p \in Producers: Dispatch(p, "market_updated")
  \/ \E p \in Producers, h \in HandlerIds, ok \in BOOLEAN: HandlerSettle(p, h, ok)
  \/ \E p \in Producers: DrainContinue(p)
  \/ On("market_updated", "h1")
  \/ OnAll(BroadcastHandler)
  \/ \E c \in ApiClients: ApiConnect(c)

SpecApi == InitDispatcher /\ [][ApiNext]_vars

\* the initial cycle, timer ticks and trigger requests in any order
BotNext ==
  \/ BotStart
  \/ TimerTick
  \/ \E c \in {"trigger1", "trigger2"}: Trigger(c)
  \/ \E c \in BotCallers, outcome \in {"empty", "ok", "throw"}: CycleBody(c, outcome)
  \/ \E c \in BotCallers: CycleAlerted(c)
  \/ \E c \in BotCallers: CycleStopped(c)

SpecBot == InitDispatcher /\ [][BotNext]_vars

SpecIndexer == InitIndexer /\ [][IxNext]_vars

SpecSync == InitIndexer /\ [][SyncNext]_vars

\* start() calls, sequential or concurrent, with no stop() between them
StartNext ==
  \/ \E s \in Starters: Start(s)
  \/ \E s \in Starters, n \in LifecycleAccounts: FetchReturn(s, n)
  \/ \E s \in Starters: FetchFail(s)
  \/ \E s \in Starters, kind \in AccountKinds: TaskFinish(s, 1, kind)
  \/ \E s \in Starters: BatchDone(s)
  \/ \E s \in Starters: SubscribeResume(s)
  \/ \E healthy \in BOOLEAN: PollTick(healthy)

SpecStart == InitIndexer /\ [][StartNext]_vars

\* the trader under every configuration of the switch, the wallet and the
\* sizing method
InitTrader ==
  /\ DispInit({TRUE}, {0}) /\ WsInit /\ IxInit /\ registry = ProgramKeys
  /\ RpcInit /\ rpcN = MaxEndpoints /\ WrInit /\ AcInit
  /\ TrInit(BOOLEAN, BOOLEAN, {"kelly", "fixed"})
  /\ ExIdle

SpecTrader == InitTrader /\ [][TraderNext]_vars

InitRpc ==
  DispInit({TRUE}, {0}) /\ WsInit /\ IxInit /\ registry = ProgramKeys /\ RpcInit /\ WrInit /\ AcInit /\ TrIdle /\ ExIdle

SpecRpcSeq == InitRpc /\ [][RpcSeqNext]_vars

\* the operation, the probe and the sleep of a call in progress all settle
RpcSeqFairness ==
  /\ WF_vars(\E out \in Outcomes: OpReturn("c1", out))
  /\ WF_vars(\E ok \in BOOLEAN: ProbeReturn("c1", ok))
  /\ WF_vars(RetryInvoke("c1"))
  /\ WF_vars(\E out \in Outcomes: RetryReturn("c1", out))
  /\ WF_vars(Wake("c1"))

SpecRpcLive == InitRpc /\ [][RpcSeqNext]_vars /\ RpcSeqFairness

SpecRpc == InitRpc /\ [][RpcNext]_vars

InitWs == InitRpc /\ rpcN = MaxEndpoints

SpecWs == InitWs /\ [][WsNext]_vars

ProcessNext ==
  \/ \E path \in {"sync", "push"}, input \in ProcessInputs:
       ProcessAccountCall(path, input.programId, input.address, input.data, PushSlot)
  \/ \E t \in {t \in NowChoices: t < 6000}: ClockAdvance(t)

\* the accounts whose bytes, cut at every length, reach the decoders
DecodeTemplates ==
  {HxroAccountBytes([status |-> 0, pools |-> <<100, 300>>, total |-> 400,
                     winning |-> 255, fee |-> 0]),
   HxroAccountBytes([status |-> 2, pools |-> <<7>>, total |-> 7,
                     winning |-> 0, fee |-> 0]),
   FeedAccountBytes([isLocked |-> FALSE, expiration |-> 0, result |-> "half"])}

DecoderLists ==
  {<<"ParimutuelMarket", "AggregatorAccount">>, <<"AggregatorAccount", "ParimutuelMarket">>,
   <<"ParimutuelMarket">>, <<"AggregatorAccount">>}

DecodeNext ==
  \/ \E bytes \in DecodeTemplates, decoders \in DecoderLists:
       \E len \in 0..Len(bytes): NewBuffer(bytes, len, decoders)
  \/ DecodeCall
  \/ ValidateCall
  \/ MultiCall
  \/ ReadFieldCall
  \/ \E t \in {t \in NowChoices: t < 6000}: ClockAdvance(t)

SpecDecode == InitWs /\ [][DecodeNext]_vars

NormalizeNext ==
  \/ \E a \in HxroAccounts: NewAccount("hxro", HxroAccountBytes(a))
  \/ \E f \in FeedAccounts: NewAccount("switchboard", FeedAccountBytes(f))
  \/ NormalizeCall
  \/ \E t \in NowChoices: ClockAdvance(t)

SpecNormalize == InitWs /\ [][NormalizeNext]_vars

SpecProcess == InitWs /\ [][ProcessNext]_vars

\* one start() call while each program holds one account, which decodes and
\* normalizes, and the first program's account changes on chain
GapNext ==
  \/ Start("s1")
  \/ FetchReturn("s1", 1)
  \/ TaskFinish("s1", 1, "ok")
  \/ BatchDone("s1")
  \/ SubscribeResume("s1")
  \/ \E healthy \in BOOLEAN: PollTick(healthy)
  \/ ChainChange

\* every await of start() settles, and the poll timer keeps firing
GapFairness ==
  /\ WF_vars(Start("s1"))
  /\ WF_vars(FetchReturn("s1", 1))
  /\ WF_vars(TaskFinish("s1", 1, "ok"))
  /\ WF_vars(BatchDone("s1"))
  /\ WF_vars(SubscribeResume("s1"))
  /\ WF_vars(\E healthy \in BOOLEAN: PollTick(healthy))

SpecGap == InitWs /\ [][GapNext]_vars /\ GapFairness
====
